---- MODULE Spec2Model ----
(***************************************************************************)
(* A model of the qec-control-emulator scripts: the circuits built by the *)
(* create_* functions, their execution on the simulator (an exact sparse   *)
(* state vector with integer amplitudes), the outcome strings the         *)
(* simulator reports, the syndrome decoders and the analyzers.            *)
(***************************************************************************)
EXTENDS Integers, Sequences, FiniteSets, TLC

VARIABLES code, input_value, apply_error, error_qubit, error_type,
          shots, pc, ip, psi, counts, report, err, syn, dec,
          batches, batch_reports, gadget, rnd, chan

vars == <<code, input_value, apply_error, error_qubit, error_type,
          shots, pc, ip, psi, counts, report, err, syn, dec,
          batches, batch_reports, gadget, rnd, chan>>

\* the state of the batch analysis, of the gadget under test and of the calls
\* into error_models.py
others == <<batches, batch_reports, gadget, rnd, chan>>

(***************************************************************************)
(* Bounds of the model.                                                    *)
(***************************************************************************)
MaxShots == 2

MaxShotsRandom == 1

MaxWeight == 2

MaxTrials == 3

MaxQubits == 3

\* probabilities are the multiples n / RateSteps, given by their numerator n
RateSteps == 4

(***************************************************************************)
(* Python values: None and a present value; strings are sequences of      *)
(* one-character strings so that indexing, slicing and split() are the    *)
(* operations the code performs.                                           *)
(***************************************************************************)
None == <<>>

Some(v) == <<v>>

Range(s) == {s[i] : i \in DOMAIN s}

RECURSIVE SumOver(_, _)
SumOver(f, S) ==
    IF S = {} THEN 0
    ELSE LET x == CHOOSE y \in S : TRUE IN f[x] + SumOver(f, S \ {x})

\* str.count(ch)
StrCount(s, ch) == Cardinality({i \in DOMAIN s : s[i] = ch})

\* s[a:b] with 0 <= a <= b (Python slice, clipped to the string)
Slice(s, a, b) ==
    LET hi == IF b < Len(s) THEN b ELSE Len(s)
    IN  IF a >= hi THEN <<>> ELSE SubSeq(s, a + 1, hi)

\* s[-n:]
LastN(s, n) == IF Len(s) <= n THEN s ELSE SubSeq(s, Len(s) - n + 1, Len(s))

\* str.split(): the maximal runs of non-space characters, in order
RECURSIVE SplitFrom(_, _, _, _)
SplitFrom(s, i, cur, acc) ==
    IF i > Len(s) THEN (IF cur = <<>> THEN acc ELSE Append(acc, cur))
    ELSE IF s[i] = " "
         THEN SplitFrom(s, i + 1, <<>>, IF cur = <<>> THEN acc ELSE Append(acc, cur))
         ELSE SplitFrom(s, i + 1, Append(cur, s[i]), acc)

Split(s) == SplitFrom(s, 1, <<>>, <<>>)

\* str.replace(' ', '')
RemoveSpaces(s) == SelectSeq(s, LAMBDA c : c # " ")

RECURSIVE Concat(_)
Concat(ss) == IF ss = <<>> THEN <<>> ELSE Head(ss) \o Concat(Tail(ss))

(***************************************************************************)
(* Circuits.  A circuit is the sequence of instructions the create_*       *)
(* function appends, over the qubits and classical bits of its registers   *)
(* numbered in the order the registers are given to QuantumCircuit.        *)
(***************************************************************************)
GX(q) == <<"x", q>>

GY(q) == <<"y", q>>

GZ(q) == <<"z", q>>

GH(q) == <<"h", q>>

GCX(c, t) == <<"cx", c, t>>

GCZ(c, t) == <<"cz", c, t>>

GBarrier == <<"barrier">>

\* qc.measure(qreg, creg): qubit qoff+i into classical bit coff+i, i in 0..n-1
GMeasure(qoff, coff, n) == [i \in 1..n |-> <<"measure", qoff + i - 1, coff + i - 1>>]

\* the if/elif chain without the 'Y' branch
InjectPauliNoY(apply, type, q) ==
    IF apply
    THEN (IF type = "X" THEN <<GX(q)>>
          ELSE IF type = "Z" THEN <<GZ(q)>>
          ELSE <<>>) \o <<GBarrier>>
    ELSE <<>>

\* the error-injection block shared by the syndrome-code scripts
InjectPauli(apply, type, q) ==
    IF apply
    THEN (IF type = "X" THEN <<GX(q)>>
          ELSE IF type = "Z" THEN <<GZ(q)>>
          ELSE IF type = "Y" THEN <<GY(q)>>
          ELSE <<>>) \o <<GBarrier>>
    ELSE <<>>

(* qec_codes.py: logical(1), physical(3), syndrome(2); syndrome_bits(2), physical_bits(3) *)
bf_logical == 0

bf_physical(i) == 1 + i

bf_syndrome(i) == 4 + i

bf_cregs == <<2, 3>>

\* the first parity check only
bf_syndrome_gates_first_check ==
    <<GCX(bf_physical(0), bf_syndrome(0)),
      GCX(bf_physical(1), bf_syndrome(0))>>

bf_syndrome_gates ==
       <<GCX(bf_physical(0), bf_syndrome(0)),
         GCX(bf_physical(1), bf_syndrome(0))>>
    \o <<GCX(bf_physical(1), bf_syndrome(1)),
         GCX(bf_physical(2), bf_syndrome(1))>>

create_bitflip_code(iv, apply, eq) ==
    (IF iv = 1 THEN <<GX(bf_logical)>> ELSE <<>>)
    \o <<GBarrier>>
    \o <<GCX(bf_logical, bf_physical(0)),
         GCX(bf_logical, bf_physical(1)),
         GCX(bf_logical, bf_physical(2))>>
    \o <<GBarrier>>
    \o (IF apply THEN <<GX(bf_physical(eq)), GBarrier>> ELSE <<>>)
    \o bf_syndrome_gates
    \o <<GBarrier>>
    \o GMeasure(bf_syndrome(0), 0, 2)
    \o GMeasure(bf_physical(0), 2, 3)

(* phase_flip_code_not_working.py: logical(1), physical(3), syndrome(2);  *)
(* syndrome_bits(2), physical_bits(3)                                      *)
pf_logical == 0

pf_physical(i) == 1 + i

pf_syndrome(i) == 4 + i

pf_cregs == <<2, 3>>

pf_hadamards == <<GH(pf_physical(0)), GH(pf_physical(1)), GH(pf_physical(2))>>

pf_syndrome_gates ==
       <<GCX(pf_physical(0), pf_syndrome(0)),
         GCX(pf_physical(1), pf_syndrome(0))>>
    \o <<GCX(pf_physical(1), pf_syndrome(1)),
         GCX(pf_physical(2), pf_syndrome(1))>>

create_phase_flip_code(iv, apply, eq) ==
    (IF iv = 1 THEN <<GX(pf_logical)>> ELSE <<>>)
    \o <<GBarrier>>
    \o <<GCX(pf_logical, pf_physical(0)),
         GCX(pf_logical, pf_physical(1)),
         GCX(pf_logical, pf_physical(2))>>
    \o pf_hadamards
    \o <<GBarrier>>
    \o (IF apply THEN <<GZ(pf_physical(eq)), GBarrier>> ELSE <<>>)
    \o pf_hadamards
    \o pf_syndrome_gates
    \o <<GBarrier>>
    \o GMeasure(pf_syndrome(0), 0, 2)
    \o GMeasure(pf_physical(0), 2, 3)

(* five_qubit_code.py: physical(5), syndrome(4); c_syn(4), c_phys(5) *)
fq_physical(i) == i

fq_syndrome(i) == 5 + i

fq_cregs == <<4, 5>>

fq_encoding(iv) ==
    (IF iv = 1 THEN <<GX(fq_physical(0))>> ELSE <<>>)
    \o <<GH(fq_physical(1)), GH(fq_physical(2)), GH(fq_physical(3)), GH(fq_physical(4))>>
    \o <<GCX(fq_physical(0), fq_physical(1)),
         GCX(fq_physical(0), fq_physical(2)),
         GCX(fq_physical(1), fq_physical(3)),
         GCX(fq_physical(2), fq_physical(4))>>
    \o <<GCX(fq_physical(3), fq_physical(0)),
         GCX(fq_physical(4), fq_physical(0)),
         GCX(fq_physical(3), fq_physical(1)),
         GCX(fq_physical(4), fq_physical(2))>>
    \o <<GCZ(fq_physical(0), fq_physical(3)),
         GCZ(fq_physical(1), fq_physical(4))>>
    \o <<GBarrier>>

\* the stabilizer measurements without the fourth gadget (ZXIXZ is not measured)
fq_stabilizers_three ==
       <<GH(fq_syndrome(0)),
         GCX(fq_syndrome(0), fq_physical(0)),
         GCZ(fq_syndrome(0), fq_physical(1)),
         GCZ(fq_syndrome(0), fq_physical(2)),
         GCX(fq_syndrome(0), fq_physical(3)),
         GH(fq_syndrome(0))>>
    \o <<GH(fq_syndrome(1)),
         GCX(fq_syndrome(1), fq_physical(1)),
         GCZ(fq_syndrome(1), fq_physical(2)),
         GCZ(fq_syndrome(1), fq_physical(3)),
         GCX(fq_syndrome(1), fq_physical(4)),
         GH(fq_syndrome(1))>>
    \o <<GH(fq_syndrome(2)),
         GCX(fq_syndrome(2), fq_physical(0)),
         GCX(fq_syndrome(2), fq_physical(2)),
         GCZ(fq_syndrome(2), fq_physical(3)),
         GCZ(fq_syndrome(2), fq_physical(4)),
         GH(fq_syndrome(2))>>

fq_stabilizers ==
       <<GH(fq_syndrome(0)),
         GCX(fq_syndrome(0), fq_physical(0)),
         GCZ(fq_syndrome(0), fq_physical(1)),
         GCZ(fq_syndrome(0), fq_physical(2)),
         GCX(fq_syndrome(0), fq_physical(3)),
         GH(fq_syndrome(0))>>
    \o <<GH(fq_syndrome(1)),
         GCX(fq_syndrome(1), fq_physical(1)),
         GCZ(fq_syndrome(1), fq_physical(2)),
         GCZ(fq_syndrome(1), fq_physical(3)),
         GCX(fq_syndrome(1), fq_physical(4)),
         GH(fq_syndrome(1))>>
    \o <<GH(fq_syndrome(2)),
         GCX(fq_syndrome(2), fq_physical(0)),
         GCX(fq_syndrome(2), fq_physical(2)),
         GCZ(fq_syndrome(2), fq_physical(3)),
         GCZ(fq_syndrome(2), fq_physical(4)),
         GH(fq_syndrome(2))>>
    \o <<GH(fq_syndrome(3)),
         GCZ(fq_syndrome(3), fq_physical(0)),
         GCX(fq_syndrome(3), fq_physical(1)),
         GCX(fq_syndrome(3), fq_physical(3)),
         GCZ(fq_syndrome(3), fq_physical(4)),
         GH(fq_syndrome(3))>>

create_five_qubit_code(iv, apply, eq, et) ==
    fq_encoding(iv)
    \o InjectPauli(apply, et, fq_physical(eq))
    \o fq_stabilizers
    \o <<GBarrier>>
    \o GMeasure(fq_syndrome(0), 0, 4)
    \o GMeasure(fq_physical(0), 4, 5)

(* steane_code.py: physical(7), syn_x(3), syn_z(3); c_syn_x(3), c_syn_z(3), c_phys(7) *)
st_physical(i) == i

st_syndrome_x(i) == 7 + i

st_syndrome_z(i) == 10 + i

st_cregs == <<3, 3, 7>>

st_encoding(iv) ==
    (IF iv = 1 THEN <<GX(st_physical(0))>> ELSE <<>>)
    \o <<GH(st_physical(0)), GH(st_physical(2)), GH(st_physical(4)), GH(st_physical(6))>>
    \o <<GCX(st_physical(0), st_physical(1)),
         GCX(st_physical(2), st_physical(1)),
         GCX(st_physical(2), st_physical(3)),
         GCX(st_physical(4), st_physical(3)),
         GCX(st_physical(4), st_physical(5)),
         GCX(st_physical(6), st_physical(5)),
         GCX(st_physical(0), st_physical(6)),
         GCX(st_physical(2), st_physical(6)),
         GCX(st_physical(4), st_physical(6))>>
    \o <<GBarrier>>

st_x_stabilizers ==
       <<GH(st_syndrome_x(0)),
         GCX(st_syndrome_x(0), st_physical(0)),
         GCX(st_syndrome_x(0), st_physical(1)),
         GCX(st_syndrome_x(0), st_physical(2)),
         GCX(st_syndrome_x(0), st_physical(3)),
         GH(st_syndrome_x(0))>>
    \o <<GH(st_syndrome_x(1)),
         GCX(st_syndrome_x(1), st_physical(2)),
         GCX(st_syndrome_x(1), st_physical(3)),
         GCX(st_syndrome_x(1), st_physical(4)),
         GCX(st_syndrome_x(1), st_physical(5)),
         GH(st_syndrome_x(1))>>
    \o <<GH(st_syndrome_x(2)),
         GCX(st_syndrome_x(2), st_physical(4)),
         GCX(st_syndrome_x(2), st_physical(5)),
         GCX(st_syndrome_x(2), st_physical(6)),
         GCX(st_syndrome_x(2), st_physical(0)),
         GH(st_syndrome_x(2))>>
    \o <<GBarrier>>

st_z_stabilizers ==
       <<GCX(st_physical(0), st_syndrome_z(0)),
         GCX(st_physical(1), st_syndrome_z(0)),
         GCX(st_physical(2), st_syndrome_z(0)),
         GCX(st_physical(3), st_syndrome_z(0))>>
    \o <<GCX(st_physical(2), st_syndrome_z(1)),
         GCX(st_physical(3), st_syndrome_z(1)),
         GCX(st_physical(4), st_syndrome_z(1)),
         GCX(st_physical(5), st_syndrome_z(1))>>
    \o <<GCX(st_physical(4), st_syndrome_z(2)),
         GCX(st_physical(5), st_syndrome_z(2)),
         GCX(st_physical(6), st_syndrome_z(2)),
         GCX(st_physical(0), st_syndrome_z(2))>>
    \o <<GBarrier>>

create_steane_code(iv, apply, eq, et) ==
    st_encoding(iv)
    \o InjectPauli(apply, et, st_physical(eq))
    \o st_x_stabilizers
    \o st_z_stabilizers
    \o GMeasure(st_syndrome_x(0), 0, 3)
    \o GMeasure(st_syndrome_z(0), 3, 3)
    \o GMeasure(st_physical(0), 6, 7)

(* surface_code.py: data(9), syn_x(4), syn_z(4); c_syn_x(4), c_syn_z(4), c_data(9) *)
sf_physical(i) == i

sf_syndrome_x(i) == 9 + i

sf_syndrome_z(i) == 13 + i

sf_cregs == <<4, 4, 9>>

sf_initialization(iv) ==
    (IF iv = 1
     THEN <<GX(sf_physical(0)), GX(sf_physical(3)), GX(sf_physical(6))>>
     ELSE <<>>)
    \o <<GBarrier>>

sf_x_stabilizers ==
       <<GH(sf_syndrome_x(0)),
         GCX(sf_syndrome_x(0), sf_physical(0)),
         GCX(sf_syndrome_x(0), sf_physical(1)),
         GCX(sf_syndrome_x(0), sf_physical(3)),
         GH(sf_syndrome_x(0))>>
    \o <<GH(sf_syndrome_x(1)),
         GCX(sf_syndrome_x(1), sf_physical(1)),
         GCX(sf_syndrome_x(1), sf_physical(2)),
         GCX(sf_syndrome_x(1), sf_physical(4)),
         GH(sf_syndrome_x(1))>>
    \o <<GH(sf_syndrome_x(2)),
         GCX(sf_syndrome_x(2), sf_physical(3)),
         GCX(sf_syndrome_x(2), sf_physical(4)),
         GCX(sf_syndrome_x(2), sf_physical(6)),
         GH(sf_syndrome_x(2))>>
    \o <<GH(sf_syndrome_x(3)),
         GCX(sf_syndrome_x(3), sf_physical(4)),
         GCX(sf_syndrome_x(3), sf_physical(5)),
         GCX(sf_syndrome_x(3), sf_physical(7)),
         GH(sf_syndrome_x(3))>>
    \o <<GBarrier>>

sf_z_stabilizers ==
       <<GCX(sf_physical(0), sf_syndrome_z(0)),
         GCX(sf_physical(1), sf_syndrome_z(0)),
         GCX(sf_physical(3), sf_syndrome_z(0)),
         GCX(sf_physical(4), sf_syndrome_z(0))>>
    \o <<GCX(sf_physical(1), sf_syndrome_z(1)),
         GCX(sf_physical(2), sf_syndrome_z(1)),
         GCX(sf_physical(4), sf_syndrome_z(1)),
         GCX(sf_physical(5), sf_syndrome_z(1))>>
    \o <<GCX(sf_physical(3), sf_syndrome_z(2)),
         GCX(sf_physical(4), sf_syndrome_z(2)),
         GCX(sf_physical(6), sf_syndrome_z(2)),
         GCX(sf_physical(7), sf_syndrome_z(2))>>
    \o <<GCX(sf_physical(4), sf_syndrome_z(3)),
         GCX(sf_physical(5), sf_syndrome_z(3)),
         GCX(sf_physical(7), sf_syndrome_z(3)),
         GCX(sf_physical(8), sf_syndrome_z(3))>>
    \o <<GBarrier>>

create_surface_code(iv, apply, eq, et) ==
    sf_initialization(iv)
    \o InjectPauli(apply, et, sf_physical(eq))
    \o sf_x_stabilizers
    \o sf_z_stabilizers
    \o GMeasure(sf_syndrome_x(0), 0, 4)
    \o GMeasure(sf_syndrome_z(0), 4, 4)
    \o GMeasure(sf_physical(0), 8, 9)

(* bacon_shor_code.py: data(9), x_syn(6), z_syn(6); c_x_syn(6), c_z_syn(6), c_data(9) *)
bs_data(i) == i

bs_x_syndrome(i) == 9 + i

bs_z_syndrome(i) == 15 + i

bs_cregs == <<6, 6, 9>>

bs_initialization(iv) ==
    (IF iv = 1
     THEN <<GX(bs_data(0)), GX(bs_data(1)), GX(bs_data(2))>>
     ELSE <<>>)
    \o <<GBarrier>>

bs_x_stabilizers ==
       <<GCX(bs_data(0), bs_x_syndrome(0)),
         GCX(bs_data(1), bs_x_syndrome(0))>>
    \o <<GCX(bs_data(1), bs_x_syndrome(1)),
         GCX(bs_data(2), bs_x_syndrome(1))>>
    \o <<GCX(bs_data(3), bs_x_syndrome(2)),
         GCX(bs_data(4), bs_x_syndrome(2))>>
    \o <<GCX(bs_data(4), bs_x_syndrome(3)),
         GCX(bs_data(5), bs_x_syndrome(3))>>
    \o <<GCX(bs_data(6), bs_x_syndrome(4)),
         GCX(bs_data(7), bs_x_syndrome(4))>>
    \o <<GCX(bs_data(7), bs_x_syndrome(5)),
         GCX(bs_data(8), bs_x_syndrome(5))>>
    \o <<GBarrier>>

bs_z_stabilizers ==
       <<GH(bs_z_syndrome(0)),
         GCX(bs_z_syndrome(0), bs_data(0)),
         GCX(bs_z_syndrome(0), bs_data(3)),
         GH(bs_z_syndrome(0))>>
    \o <<GH(bs_z_syndrome(1)),
         GCX(bs_z_syndrome(1), bs_data(3)),
         GCX(bs_z_syndrome(1), bs_data(6)),
         GH(bs_z_syndrome(1))>>
    \o <<GH(bs_z_syndrome(2)),
         GCX(bs_z_syndrome(2), bs_data(1)),
         GCX(bs_z_syndrome(2), bs_data(4)),
         GH(bs_z_syndrome(2))>>
    \o <<GH(bs_z_syndrome(3)),
         GCX(bs_z_syndrome(3), bs_data(4)),
         GCX(bs_z_syndrome(3), bs_data(7)),
         GH(bs_z_syndrome(3))>>
    \o <<GH(bs_z_syndrome(4)),
         GCX(bs_z_syndrome(4), bs_data(2)),
         GCX(bs_z_syndrome(4), bs_data(5)),
         GH(bs_z_syndrome(4))>>
    \o <<GH(bs_z_syndrome(5)),
         GCX(bs_z_syndrome(5), bs_data(5)),
         GCX(bs_z_syndrome(5), bs_data(8)),
         GH(bs_z_syndrome(5))>>
    \o <<GBarrier>>

create_bacon_shor_code(iv, apply, eq, et) ==
    bs_initialization(iv)
    \o InjectPauli(apply, et, bs_data(eq))
    \o bs_x_stabilizers
    \o bs_z_stabilizers
    \o GMeasure(bs_x_syndrome(0), 0, 6)
    \o GMeasure(bs_z_syndrome(0), 6, 6)
    \o GMeasure(bs_data(0), 12, 9)

(* toric_code.py: data(16), vertex(4), plaquette(4); c_vertex(4), c_plaq(4), c_data(16) *)
tc_data(i) == i

tc_vertex_syn(i) == 16 + i

tc_plaquette_syn(i) == 20 + i

tc_cregs == <<4, 4, 16>>

\* input_values is the pair (logical 1, logical 2)
tc_initialization(ivs) ==
    (IF ivs[1] = 1
     THEN <<GX(tc_data(0)), GX(tc_data(1)), GX(tc_data(2)), GX(tc_data(3))>>
     ELSE <<>>)
    \o (IF ivs[2] = 1
        THEN <<GX(tc_data(0)), GX(tc_data(4)), GX(tc_data(8)), GX(tc_data(12))>>
        ELSE <<>>)
    \o <<GBarrier>>

tc_vertex_stabilizers ==
       <<GH(tc_vertex_syn(0)),
         GCX(tc_vertex_syn(0), tc_data(0)),
         GCX(tc_vertex_syn(0), tc_data(3)),
         GCX(tc_vertex_syn(0), tc_data(12)),
         GCX(tc_vertex_syn(0), tc_data(15)),
         GH(tc_vertex_syn(0))>>
    \o <<GH(tc_vertex_syn(1)),
         GCX(tc_vertex_syn(1), tc_data(1)),
         GCX(tc_vertex_syn(1), tc_data(4)),
         GCX(tc_vertex_syn(1), tc_data(0)),
         GCX(tc_vertex_syn(1), tc_data(7)),
         GH(tc_vertex_syn(1))>>
    \o <<GH(tc_vertex_syn(2)),
         GCX(tc_vertex_syn(2), tc_data(8)),
         GCX(tc_vertex_syn(2), tc_data(11)),
         GCX(tc_vertex_syn(2), tc_data(4)),
         GCX(tc_vertex_syn(2), tc_data(7)),
         GH(tc_vertex_syn(2))>>
    \o <<GH(tc_vertex_syn(3)),
         GCX(tc_vertex_syn(3), tc_data(9)),
         GCX(tc_vertex_syn(3), tc_data(12)),
         GCX(tc_vertex_syn(3), tc_data(5)),
         GCX(tc_vertex_syn(3), tc_data(8)),
         GH(tc_vertex_syn(3))>>
    \o <<GBarrier>>

tc_plaquette_stabilizers ==
       <<GCX(tc_data(0), tc_plaquette_syn(0)),
         GCX(tc_data(1), tc_plaquette_syn(0)),
         GCX(tc_data(4), tc_plaquette_syn(0)),
         GCX(tc_data(5), tc_plaquette_syn(0))>>
    \o <<GCX(tc_data(2), tc_plaquette_syn(1)),
         GCX(tc_data(3), tc_plaquette_syn(1)),
         GCX(tc_data(6), tc_plaquette_syn(1)),
         GCX(tc_data(7), tc_plaquette_syn(1))>>
    \o <<GCX(tc_data(8), tc_plaquette_syn(2)),
         GCX(tc_data(9), tc_plaquette_syn(2)),
         GCX(tc_data(12), tc_plaquette_syn(2)),
         GCX(tc_data(13), tc_plaquette_syn(2))>>
    \o <<GCX(tc_data(10), tc_plaquette_syn(3)),
         GCX(tc_data(11), tc_plaquette_syn(3)),
         GCX(tc_data(14), tc_plaquette_syn(3)),
         GCX(tc_data(15), tc_plaquette_syn(3))>>
    \o <<GBarrier>>

create_toric_code(ivs, apply, eq, et) ==
    tc_initialization(ivs)
    \o InjectPauli(apply, et, tc_data(eq))
    \o tc_vertex_stabilizers
    \o tc_plaquette_stabilizers
    \o GMeasure(tc_vertex_syn(0), 0, 4)
    \o GMeasure(tc_plaquette_syn(0), 4, 4)
    \o GMeasure(tc_data(0), 8, 16)

(* shors_9qubit_code.py: physical_q(9), ancilla_q(8); syndrome_c(8), physical_c(9) *)
sh_physical_q(i) == i

sh_ancilla_q(i) == 9 + i

sh_cregs == <<8, 9>>

sh_encoding_gates ==
       <<GCX(sh_physical_q(0), sh_physical_q(1)),
         GCX(sh_physical_q(0), sh_physical_q(2))>>
    \o <<GCX(sh_physical_q(0), sh_physical_q(3)),
         GCX(sh_physical_q(3), sh_physical_q(4))>>
    \o <<GCX(sh_physical_q(3), sh_physical_q(5)),
         GCX(sh_physical_q(0), sh_physical_q(6))>>
    \o <<GCX(sh_physical_q(6), sh_physical_q(7)),
         GCX(sh_physical_q(6), sh_physical_q(8))>>

\* the parity checks of block 0 only
sh_syndrome_gates_block0 ==
    <<GCX(sh_physical_q(0), sh_ancilla_q(0)),
      GCX(sh_physical_q(1), sh_ancilla_q(0)),
      GCX(sh_physical_q(1), sh_ancilla_q(1)),
      GCX(sh_physical_q(2), sh_ancilla_q(1))>>

sh_syndrome_gates ==
       <<GCX(sh_physical_q(0), sh_ancilla_q(0)),
         GCX(sh_physical_q(1), sh_ancilla_q(0)),
         GCX(sh_physical_q(1), sh_ancilla_q(1)),
         GCX(sh_physical_q(2), sh_ancilla_q(1))>>
    \o <<GCX(sh_physical_q(3), sh_ancilla_q(2)),
         GCX(sh_physical_q(4), sh_ancilla_q(2)),
         GCX(sh_physical_q(4), sh_ancilla_q(3)),
         GCX(sh_physical_q(5), sh_ancilla_q(3))>>
    \o <<GCX(sh_physical_q(6), sh_ancilla_q(4)),
         GCX(sh_physical_q(7), sh_ancilla_q(4)),
         GCX(sh_physical_q(7), sh_ancilla_q(5)),
         GCX(sh_physical_q(8), sh_ancilla_q(5))>>
    \o <<GCX(sh_physical_q(0), sh_ancilla_q(6)),
         GCX(sh_physical_q(3), sh_ancilla_q(6)),
         GCX(sh_physical_q(3), sh_ancilla_q(7)),
         GCX(sh_physical_q(6), sh_ancilla_q(7))>>

create_shors_9qubit_code(iv, bit_flip, phase_flip, eq) ==
    (IF iv = 1 THEN <<GX(sh_physical_q(0))>> ELSE <<>>)
    \o <<GBarrier>>
    \o sh_encoding_gates
    \o <<GBarrier>>
    \o (IF bit_flip \/ phase_flip
        THEN (IF bit_flip THEN <<GX(sh_physical_q(eq))>> ELSE <<>>)
             \o (IF phase_flip THEN <<GZ(sh_physical_q(eq))>> ELSE <<>>)
             \o <<GBarrier>>
        ELSE <<>>)
    \o sh_syndrome_gates
    \o <<GBarrier>>
    \o GMeasure(sh_ancilla_q(0), 0, 8)
    \o GMeasure(sh_physical_q(0), 8, 9)

(***************************************************************************)
(* The simulator.  The state is the function from the basis states with a  *)
(* non-zero amplitude (a basis state is the number whose bit q is qubit    *)
(* q) to that amplitude, kept as an integer: every gate used is real up to *)
(* a global phase and the common factor 1/sqrt(2) of a Hadamard changes no *)
(* outcome's possibility.                                                  *)
(***************************************************************************)
Bit(k, q) == (k \div (2 ^ q)) % 2

Flip(k, q) == IF Bit(k, q) = 1 THEN k - 2 ^ q ELSE k + 2 ^ q

Amp(st, k) == IF k \in DOMAIN st THEN st[k] ELSE 0

Negate(st, S) == [k \in DOMAIN st |-> IF k \in S THEN 0 - st[k] ELSE st[k]]

PauliX(st, q) == [k \in {Flip(j, q) : j \in DOMAIN st} |-> st[Flip(k, q)]]

PauliZ(st, q) == Negate(st, {k \in DOMAIN st : Bit(k, q) = 1})

CXMap(k, c, t) == IF Bit(k, c) = 1 THEN Flip(k, t) ELSE k

ControlledX(st, c, t) == [k \in {CXMap(j, c, t) : j \in DOMAIN st} |-> st[CXMap(k, c, t)]]

\* a CZ that leaves the state as it is
NoControlledZ(st, c, t) == st

ControlledZ(st, c, t) == Negate(st, {k \in DOMAIN st : Bit(k, c) = 1 /\ Bit(k, t) = 1})

Hadamard(st, q) ==
    LET cand == DOMAIN st \cup {Flip(k, q) : k \in DOMAIN st}
        new(k) == IF Bit(k, q) = 0
                  THEN Amp(st, k) + Amp(st, Flip(k, q))
                  ELSE Amp(st, Flip(k, q)) - Amp(st, k)
    IN  [k \in {j \in cand : new(j) # 0} |-> new(k)]

ApplyGate(st, g) ==
    CASE g[1] = "x" -> PauliX(st, g[2])
      [] g[1] = "y" -> PauliX(PauliZ(st, g[2]), g[2])
      [] g[1] = "z" -> PauliZ(st, g[2])
      [] g[1] = "h" -> Hadamard(st, g[2])
      [] g[1] = "cx" -> ControlledX(st, g[2], g[3])
      [] g[1] = "cz" -> ControlledZ(st, g[2], g[3])
      [] OTHER -> st

\* all qubits start in |0>
ZeroState == [k \in {0} |-> 1]

(***************************************************************************)
(* Measurement and the outcome string of get_counts(): the classical      *)
(* registers from the last added to the first, separated by one space,    *)
(* each with its highest bit leftmost.                                     *)
(***************************************************************************)
Measures(circ) == {circ[i] : i \in {j \in DOMAIN circ : circ[j][1] = "measure"}}

ClBit(k, circ, c) ==
    IF \E m \in Measures(circ) : m[3] = c
    THEN LET m == CHOOSE mm \in Measures(circ) : mm[3] = c IN Bit(k, m[2])
    ELSE 0

BitChar(b) == IF b = 1 THEN "1" ELSE "0"

\* register of n bits starting at classical bit off, highest bit first
RegString(k, circ, off, n) == [i \in 1..n |-> BitChar(ClBit(k, circ, off + n - i))]

RECURSIVE RegOffset(_, _)
RegOffset(cregs, r) == IF r = 1 THEN 0 ELSE RegOffset(cregs, r - 1) + cregs[r - 1]

RECURSIVE MemoryFrom(_, _, _, _)
MemoryFrom(k, circ, cregs, r) ==
    IF r = 0 THEN <<>>
    ELSE RegString(k, circ, RegOffset(cregs, r), cregs[r])
         \o (IF r = 1 THEN <<>> ELSE <<" ">> \o MemoryFrom(k, circ, cregs, r - 1))

Memory(k, circ, cregs) == MemoryFrom(k, circ, cregs, Len(cregs))

\* the outcomes a shot can produce: those of non-zero probability
Outcomes(st, circ, cregs) == {Memory(k, circ, cregs) : k \in DOMAIN st}

(***************************************************************************)
(* Histograms: counts maps each observed outcome string to the number of   *)
(* shots that produced it.                                                 *)
(***************************************************************************)
EmptyCounts == [m \in {} |-> 0]

AddShot(cnts, m) ==
    [k \in DOMAIN cnts \cup {m} |-> IF k \in DOMAIN cnts
                                    THEN (IF k = m THEN cnts[k] + 1 ELSE cnts[k])
                                    ELSE 1]

\* sum(counts.values())
\* the number of distinct outcomes, where the code sums the counts
TotalOutcomes(cnts) == Cardinality(DOMAIN cnts)

TotalShots(cnts) == SumOver(cnts, DOMAIN cnts)

\* the sum of the counts of the outcomes in S
CountIn(cnts, S) == SumOver(cnts, S)

\* a rate in percent, successes / total * 100, kept as the fraction num / den
Percent(successes, total) == [num |-> successes * 100, den |-> total]

(***************************************************************************)
(* qec_codes.py: analyze_results, majority voting.                         *)
(***************************************************************************)
bf_physical_bits(bitstring) ==
    LET parts == Split(bitstring)
    IN  IF Len(parts) = 2 THEN parts[2] ELSE LastN(bitstring, 3)

MajorityVote(physical_bits) ==
    IF StrCount(physical_bits, "1") > StrCount(physical_bits, "0") THEN 1 ELSE 0

bf_analyze_results(cnts, iv) ==
    LET good    == {b \in DOMAIN cnts : MajorityVote(bf_physical_bits(b)) = iv}
        success == CountIn(cnts, good)
        failure == CountIn(cnts, DOMAIN cnts \ good)
        total   == success + failure
    IN  [success |-> success,
         failure |-> failure,
         total   |-> total,
         result  |-> [b \in DOMAIN cnts |-> MajorityVote(bf_physical_bits(b))],
         raised  |-> FALSE,
         success_rate |-> IF total > 0 THEN Percent(success, total) ELSE Percent(0, 1)]

(***************************************************************************)
(* phase_flip_code_not_working.py: analyze_results, majority voting.       *)
(***************************************************************************)
\* the last three characters, where the code takes the first field
pf_last_three(bitstring) == LastN(bitstring, 3)

pf_physical_bits(bitstring) ==
    LET parts == Split(bitstring)
    IN  IF Len(parts) = 2 THEN parts[1] ELSE Slice(bitstring, 0, 3)

pf_analyze_results(cnts, iv) ==
    LET good    == {b \in DOMAIN cnts : MajorityVote(pf_physical_bits(b)) = iv}
        success == CountIn(cnts, good)
        failure == CountIn(cnts, DOMAIN cnts \ good)
        total   == success + failure
    IN  [success |-> success,
         failure |-> failure,
         total   |-> total,
         result  |-> [b \in DOMAIN cnts |-> MajorityVote(pf_physical_bits(b))],
         raised  |-> FALSE,
         success_rate |-> IF total > 0 THEN Percent(success, total) ELSE Percent(0, 1)]

(***************************************************************************)
(* A dict literal: the pairs as listed.  Python builds the dict by         *)
(* inserting the pairs in order, so a key listed again replaces the value  *)
(* stored for it; dict.get(key, default) returns the stored value.         *)
(***************************************************************************)
RECURSIVE DictGetFrom(_, _, _, _)
DictGetFrom(pairs, key, cur, i) ==
    IF i > Len(pairs) THEN cur
    ELSE DictGetFrom(pairs, key, IF pairs[i][1] = key THEN pairs[i][2] ELSE cur, i + 1)

DictGet(pairs, key, default) == DictGetFrom(pairs, key, default, 1)

(***************************************************************************)
(* five_qubit_code.py: decode_five_qubit_syndrome and                      *)
(* analyze_five_qubit_results.                                             *)
(***************************************************************************)
fq_syndrome_table ==
    << << <<"0","0","0","0">>, <<None, None>> >>,
       << <<"1","0","1","1">>, <<Some(0), Some("X")>> >>,
       << <<"0","1","1","1">>, <<Some(1), Some("X")>> >>,
       << <<"1","1","0","1">>, <<Some(2), Some("X")>> >>,
       << <<"1","1","1","0">>, <<Some(3), Some("X")>> >>,
       << <<"0","1","1","0">>, <<Some(4), Some("X")>> >>,
       << <<"0","1","0","1">>, <<Some(0), Some("Z")>> >>,
       << <<"1","0","1","0">>, <<Some(1), Some("Z")>> >>,
       << <<"0","0","1","1">>, <<Some(2), Some("Z")>> >>,
       << <<"1","1","0","0">>, <<Some(3), Some("Z")>> >>,
       << <<"1","0","0","1">>, <<Some(4), Some("Z")>> >>,
       << <<"1","1","1","0">>, <<Some(0), Some("Y")>> >>,
       << <<"1","1","0","1">>, <<Some(1), Some("Y")>> >>,
       << <<"1","1","1","0">>, <<Some(2), Some("Y")>> >>,
       << <<"0","0","1","0">>, <<Some(3), Some("Y")>> >>,
       << <<"1","1","1","1">>, <<Some(4), Some("Y")>> >> >>

decode_five_qubit_syndrome(syndrome) ==
    DictGet(fq_syndrome_table, syndrome, <<None, Some("Unknown")>>)

\* the fields of one outcome string: physical(5) syndrome(4)
fq_parse(measurement) ==
    LET bits == Split(measurement)
        full == RemoveSpaces(measurement)
    IN  IF Len(bits) = 2
        THEN [physical_bits |-> bits[1], syndrome_bits |-> bits[2]]
        ELSE [physical_bits |-> Slice(full, 0, 5), syndrome_bits |-> Slice(full, 5, 9)]

\* whether the loop adds the outcome's count to `successful`
\* every shot counted, whatever its syndrome
fq_shot_always(measurement, iv) == measurement = measurement

fq_shot_success(measurement, iv) == fq_parse(measurement).syndrome_bits = <<"0","0","0","0">>

\* the "Detected Error" column of a report row
fq_error_str(error) ==
    IF error[1] # None
    THEN (IF error[2] = Some("Unknown")
          THEN <<"Unknown error">>
          ELSE <<"Qubit", error[1], error[2]>>)
    ELSE <<"No error">>

analyze_five_qubit_results(cnts, iv) ==
    LET total_shots == TotalShots(cnts)
        keys        == {fq_parse(m).syndrome_bits : m \in DOMAIN cnts}
        stats       == [s \in keys |->
                          [count |-> CountIn(cnts, {m \in DOMAIN cnts :
                                                      fq_parse(m).syndrome_bits = s}),
                           error |-> decode_five_qubit_syndrome(s)]]
        successful  == CountIn(cnts, {m \in DOMAIN cnts : fq_shot_success(m, iv)})
    IN  [total_shots    |-> total_shots,
         successful     |-> successful,
         syndrome_stats |-> stats,
         rows           |-> [s \in keys |-> fq_error_str(stats[s].error)],
         raised         |-> total_shots = 0,
         success_rate   |-> IF total_shots = 0 THEN Percent(0, 1)
                            ELSE Percent(successful, total_shots)]

(***************************************************************************)
(* steane_code.py: decode_steane_syndrome and analyze_steane_results.      *)
(***************************************************************************)
st_x_syndrome_table ==
    << << <<"0","0","0">>, None >>,
       << <<"1","1","1">>, Some(0) >>,
       << <<"1","1","0">>, Some(1) >>,
       << <<"1","0","1">>, Some(2) >>,
       << <<"0","1","1">>, Some(3) >>,
       << <<"0","1","0">>, Some(4) >>,
       << <<"0","0","1">>, Some(5) >>,
       << <<"1","0","0">>, Some(6) >> >>

st_z_syndrome_table ==
    << << <<"0","0","0">>, None >>,
       << <<"1","1","1">>, Some(0) >>,
       << <<"1","1","0">>, Some(1) >>,
       << <<"1","0","1">>, Some(2) >>,
       << <<"0","1","1">>, Some(3) >>,
       << <<"0","1","0">>, Some(4) >>,
       << <<"0","0","1">>, Some(5) >>,
       << <<"1","0","0">>, Some(6) >> >>

decode_steane_syndrome(syndrome_x, syndrome_z) ==
    LET x_error_qubit == DictGet(st_x_syndrome_table, syndrome_x, None)
        z_error_qubit == DictGet(st_z_syndrome_table, syndrome_z, None)
    IN  IF x_error_qubit # None /\ z_error_qubit # None
        THEN (IF x_error_qubit = z_error_qubit
              THEN <<x_error_qubit, Some("Y")>>
              ELSE <<None, Some("Unknown")>>)
        ELSE IF x_error_qubit # None THEN <<x_error_qubit, Some("X")>>
        ELSE IF z_error_qubit # None THEN <<z_error_qubit, Some("Z")>>
        ELSE <<None, None>>

\* the fields of one outcome string: physical(7) syndrome_z(3) syndrome_x(3)
st_parse(measurement) ==
    LET bits == Split(measurement)
        full == RemoveSpaces(measurement)
    IN  IF Len(bits) = 3
        THEN [physical_bits |-> bits[1], syndrome_z_bits |-> bits[2],
              syndrome_x_bits |-> bits[3]]
        ELSE [physical_bits |-> Slice(full, 0, 7), syndrome_z_bits |-> Slice(full, 7, 10),
              syndrome_x_bits |-> Slice(full, 10, 13)]

\* the key f"X:{syndrome_x_bits} Z:{syndrome_z_bits}" of syndrome_stats
st_syndrome_key(measurement) ==
    <<st_parse(measurement).syndrome_x_bits, st_parse(measurement).syndrome_z_bits>>

st_shot_success(measurement, iv) ==
    /\ st_parse(measurement).syndrome_x_bits = <<"0","0","0">>
    /\ st_parse(measurement).syndrome_z_bits = <<"0","0","0">>

st_error_str(error) ==
    IF error[1] # None THEN <<"Qubit", error[1], error[2]>> ELSE <<"No error">>

analyze_steane_results(cnts, iv) ==
    LET total_shots == TotalShots(cnts)
        keys        == {st_syndrome_key(m) : m \in DOMAIN cnts}
        stats       == [s \in keys |->
                          [count |-> CountIn(cnts, {m \in DOMAIN cnts : st_syndrome_key(m) = s}),
                           error |-> decode_steane_syndrome(s[1], s[2])]]
        successful  == CountIn(cnts, {m \in DOMAIN cnts : st_shot_success(m, iv)})
    IN  [total_shots    |-> total_shots,
         successful     |-> successful,
         syndrome_stats |-> stats,
         rows           |-> [s \in keys |-> st_error_str(stats[s].error)],
         raised         |-> total_shots = 0,
         success_rate   |-> IF total_shots = 0 THEN Percent(0, 1)
                            ELSE Percent(successful, total_shots)]

(***************************************************************************)
(* surface_code.py: decode_surface_syndrome and analyze_surface_results.   *)
(***************************************************************************)
\* a decoder without the cases of a non-zero X syndrome
decode_surface_two_cases(syndrome_x, syndrome_z) ==
    IF syndrome_x = <<"0","0","0","0">> /\ syndrome_z = <<"0","0","0","0">>
    THEN <<None, None>>
    ELSE IF syndrome_x = <<"0","0","0","0">> /\ syndrome_z # <<"0","0","0","0">>
    THEN <<Some("X-error detected"), Some("X")>>
    ELSE <<Some("Unknown"), Some("Unknown")>>

decode_surface_syndrome(syndrome_x, syndrome_z) ==
    IF syndrome_x = <<"0","0","0","0">> /\ syndrome_z = <<"0","0","0","0">>
    THEN <<None, None>>
    ELSE IF syndrome_x = <<"0","0","0","0">> /\ syndrome_z # <<"0","0","0","0">>
    THEN <<Some("X-error detected"), Some("X")>>
    ELSE IF syndrome_x # <<"0","0","0","0">> /\ syndrome_z = <<"0","0","0","0">>
    THEN <<Some("Z-error detected"), Some("Z")>>
    ELSE IF syndrome_x # <<"0","0","0","0">> /\ syndrome_z # <<"0","0","0","0">>
    THEN <<Some("Y-error or multiple errors"), Some("Y")>>
    ELSE <<Some("Unknown"), Some("Unknown")>>

\* the fields of one outcome string: physical(9) syndrome_z(4) syndrome_x(4)
sf_parse(measurement) ==
    LET bits == Split(measurement)
        full == RemoveSpaces(measurement)
    IN  IF Len(bits) = 3
        THEN [physical_bits |-> bits[1], syndrome_z_bits |-> bits[2],
              syndrome_x_bits |-> bits[3]]
        ELSE [physical_bits |-> Slice(full, 0, 9), syndrome_z_bits |-> Slice(full, 9, 13),
              syndrome_x_bits |-> Slice(full, 13, 17)]

sf_syndrome_key(measurement) ==
    <<sf_parse(measurement).syndrome_x_bits, sf_parse(measurement).syndrome_z_bits>>

sf_shot_success(measurement, iv) ==
    /\ sf_parse(measurement).syndrome_x_bits = <<"0","0","0","0">>
    /\ sf_parse(measurement).syndrome_z_bits = <<"0","0","0","0">>

\* the "Detected Error" column of the surface, Bacon-Shor and toric reports
desc_error_str(error) ==
    IF error[1] # None THEN <<error[1], error[2]>> ELSE <<"No error">>

analyze_surface_results(cnts, iv) ==
    LET total_shots == TotalShots(cnts)
        keys        == {sf_syndrome_key(m) : m \in DOMAIN cnts}
        stats       == [s \in keys |->
                          [count |-> CountIn(cnts, {m \in DOMAIN cnts : sf_syndrome_key(m) = s}),
                           error |-> decode_surface_syndrome(s[1], s[2])]]
        successful  == CountIn(cnts, {m \in DOMAIN cnts : sf_shot_success(m, iv)})
    IN  [total_shots    |-> total_shots,
         successful     |-> successful,
         syndrome_stats |-> stats,
         rows           |-> [s \in keys |-> desc_error_str(stats[s].error)],
         raised         |-> total_shots = 0,
         success_rate   |-> IF total_shots = 0 THEN Percent(0, 1)
                            ELSE Percent(successful, total_shots)]

(***************************************************************************)
(* toric_code.py: decode_toric_syndrome and analyze_toric_results.         *)
(***************************************************************************)
decode_toric_syndrome(vertex_syndrome, plaquette_syndrome) ==
    IF vertex_syndrome = <<"0","0","0","0">> /\ plaquette_syndrome = <<"0","0","0","0">>
    THEN <<None, None>>
    ELSE IF vertex_syndrome = <<"0","0","0","0">> /\ plaquette_syndrome # <<"0","0","0","0">>
    THEN <<Some(<<"X-error chain", StrCount(plaquette_syndrome, "1")>>), Some("X")>>
    ELSE IF vertex_syndrome # <<"0","0","0","0">> /\ plaquette_syndrome = <<"0","0","0","0">>
    THEN <<Some(<<"Z-error chain", StrCount(vertex_syndrome, "1")>>), Some("Z")>>
    ELSE IF vertex_syndrome # <<"0","0","0","0">> /\ plaquette_syndrome # <<"0","0","0","0">>
    THEN <<Some(<<"Mixed errors", StrCount(vertex_syndrome, "1"),
                  StrCount(plaquette_syndrome, "1")>>), Some("Y")>>
    ELSE <<Some("Unknown"), Some("Unknown")>>

\* the fields of one outcome string: data(16) plaquette(4) vertex(4)
tc_parse(measurement) ==
    LET bits == Split(measurement)
        full == RemoveSpaces(measurement)
    IN  IF Len(bits) = 3
        THEN [data_bits |-> bits[1], plaquette_bits |-> bits[2], vertex_bits |-> bits[3]]
        ELSE [data_bits |-> Slice(full, 0, 16), plaquette_bits |-> Slice(full, 16, 20),
              vertex_bits |-> Slice(full, 20, 24)]

tc_syndrome_key(measurement) ==
    <<tc_parse(measurement).vertex_bits, tc_parse(measurement).plaquette_bits>>

tc_shot_success(measurement, ivs) ==
    /\ tc_parse(measurement).vertex_bits = <<"0","0","0","0">>
    /\ tc_parse(measurement).plaquette_bits = <<"0","0","0","0">>

analyze_toric_results(cnts, ivs) ==
    LET total_shots == TotalShots(cnts)
        keys        == {tc_syndrome_key(m) : m \in DOMAIN cnts}
        stats       == [s \in keys |->
                          [count |-> CountIn(cnts, {m \in DOMAIN cnts : tc_syndrome_key(m) = s}),
                           error |-> decode_toric_syndrome(s[1], s[2])]]
        successful  == CountIn(cnts, {m \in DOMAIN cnts : tc_shot_success(m, ivs)})
    IN  [total_shots    |-> total_shots,
         successful     |-> successful,
         syndrome_stats |-> stats,
         rows           |-> [s \in keys |-> desc_error_str(stats[s].error)],
         raised         |-> total_shots = 0,
         success_rate   |-> IF total_shots = 0 THEN Percent(0, 1)
                            ELSE Percent(successful, total_shots)]

(***************************************************************************)
(* bacon_shor_code.py: decode_bacon_shor_syndrome and                      *)
(* analyze_bacon_shor_results.                                             *)
(***************************************************************************)
\* the groups g in 0..2 with syndrome[2g] == '1' or syndrome[2g+1] == '1'
bs_groups(syndrome) ==
    SelectSeq(<<0, 1, 2>>,
              LAMBDA g : syndrome[2 * g + 1] = "1" \/ syndrome[2 * g + 2] = "1")

decode_bacon_shor_syndrome(x_syndrome, z_syndrome) ==
    LET zero == <<"0","0","0","0","0","0">>
        col_errors == bs_groups(z_syndrome)
        row_errors == bs_groups(x_syndrome)
        error_description ==
               (IF z_syndrome # zero /\ col_errors # <<>>
                THEN << <<"Z-error in column(s)", col_errors>> >> ELSE <<>>)
            \o (IF x_syndrome # zero /\ row_errors # <<>>
                THEN << <<"X-error in row(s)", row_errors>> >> ELSE <<>>)
    IN  IF x_syndrome = zero /\ z_syndrome = zero THEN <<None, None>>
        ELSE IF error_description = <<>>
        THEN <<Some("Unknown error pattern"), Some("Unknown")>>
        ELSE <<Some(error_description),
               Some(IF x_syndrome # zero /\ z_syndrome # zero THEN "Y or mixed"
                    ELSE IF x_syndrome # zero THEN "X"
                    ELSE "Z")>>

\* the fields of one outcome string: data(9) z_syndrome(6) x_syndrome(6)
bs_parse(measurement) ==
    LET bits == Split(measurement)
        full == RemoveSpaces(measurement)
    IN  IF Len(bits) = 3
        THEN [data_bits |-> bits[1], z_syndrome_bits |-> bits[2], x_syndrome_bits |-> bits[3]]
        ELSE [data_bits |-> Slice(full, 0, 9), z_syndrome_bits |-> Slice(full, 9, 15),
              x_syndrome_bits |-> Slice(full, 15, 21)]

bs_syndrome_key(measurement) ==
    <<bs_parse(measurement).x_syndrome_bits, bs_parse(measurement).z_syndrome_bits>>

bs_shot_success(measurement, iv) ==
    /\ bs_parse(measurement).x_syndrome_bits = <<"0","0","0","0","0","0">>
    /\ bs_parse(measurement).z_syndrome_bits = <<"0","0","0","0","0","0">>

analyze_bacon_shor_results(cnts, iv) ==
    LET total_shots == TotalShots(cnts)
        keys        == {bs_syndrome_key(m) : m \in DOMAIN cnts}
        stats       == [s \in keys |->
                          [count |-> CountIn(cnts, {m \in DOMAIN cnts : bs_syndrome_key(m) = s}),
                           error |-> decode_bacon_shor_syndrome(s[1], s[2])]]
        successful  == CountIn(cnts, {m \in DOMAIN cnts : bs_shot_success(m, iv)})
    IN  [total_shots    |-> total_shots,
         successful     |-> successful,
         syndrome_stats |-> stats,
         rows           |-> [s \in keys |-> desc_error_str(stats[s].error)],
         raised         |-> total_shots = 0,
         success_rate   |-> IF total_shots = 0 THEN Percent(0, 1)
                            ELSE Percent(successful, total_shots)]

(***************************************************************************)
(* shors_9qubit_code.py: analyze_results.                                  *)
(***************************************************************************)
\* the second field of the outcome string, where the code takes the first
sh_second_field(bitstring) == Split(bitstring)[2]

sh_physical_bits(bitstring) ==
    LET parts == Split(bitstring)
    IN  IF Len(parts) = 2 THEN parts[1] ELSE Slice(bitstring, 0, 9)

sh_analyze_results(cnts, iv) ==
    LET good    == {b \in DOMAIN cnts : MajorityVote(sh_physical_bits(b)) = iv}
        success == CountIn(cnts, good)
        failure == CountIn(cnts, DOMAIN cnts \ good)
        total   == success + failure
    IN  [success |-> success,
         failure |-> failure,
         total   |-> total,
         result  |-> [b \in DOMAIN cnts |-> MajorityVote(sh_physical_bits(b))],
         raised  |-> FALSE,
         success_rate |-> IF total > 0 THEN Percent(success, total) ELSE Percent(0, 1)]

(***************************************************************************)
(* Pauli strings over the data qubits, [x |-> X-part, z |-> Z-part], and   *)
(* the Pauli string a syndrome gadget measures: X on each data qubit the   *)
(* ancilla controls with CX, Z on each data qubit it is coupled to by CZ   *)
(* or that controls a CX onto it (a gate applied twice cancels).           *)
(***************************************************************************)
Odd(n) == n % 2 = 1

Times(gs, g) == Cardinality({i \in DOMAIN gs : gs[i] = g})

Touched(gs) == UNION {{gs[i][j] : j \in 2..Len(gs[i])} : i \in DOMAIN gs}

GadgetPauli(gs, a) ==
    [x |-> {q \in Touched(gs) : Odd(Times(gs, GCX(a, q)))},
     z |-> {q \in Touched(gs) :
               Odd(Times(gs, GCZ(a, q)) + Times(gs, GCZ(q, a)) + Times(gs, GCX(q, a)))}]

PauliOn(q, t) ==
    [x |-> IF t \in {"X", "Y"} THEN {q} ELSE {},
     z |-> IF t \in {"Z", "Y"} THEN {q} ELSE {}]

PauliSupport(p) == p.x \cup p.z

Weight(p) == Cardinality(PauliSupport(p))

SymDiff(A, B) == (A \ B) \cup (B \ A)

Multiply(p, q) == [x |-> SymDiff(p.x, q.x), z |-> SymDiff(p.z, q.z)]

Commutes(p, q) == ~Odd(Cardinality(p.x \cap q.z) + Cardinality(p.z \cap q.x))

\* the syndrome gadgets of each script and the ancillas of each syndrome
\* register, in the order of the register's bits
StabilizerGates(c) ==
    CASE c = "bitflip" -> bf_syndrome_gates
      [] c = "phase_flip" -> pf_hadamards \o pf_syndrome_gates
      [] c = "five_qubit" -> fq_stabilizers
      [] c = "steane" -> st_x_stabilizers \o st_z_stabilizers
      [] c = "shor9" -> sh_syndrome_gates
      [] c = "bacon_shor" -> bs_x_stabilizers \o bs_z_stabilizers
      [] c = "surface" -> sf_x_stabilizers \o sf_z_stabilizers
      [] c = "toric" -> tc_vertex_stabilizers \o tc_plaquette_stabilizers

SyndromeRegisters(c) ==
    CASE c = "bitflip" -> << [i \in 1..2 |-> bf_syndrome(i - 1)] >>
      [] c = "phase_flip" -> << [i \in 1..2 |-> pf_syndrome(i - 1)] >>
      [] c = "five_qubit" -> << [i \in 1..4 |-> fq_syndrome(i - 1)] >>
      [] c = "steane" -> << [i \in 1..3 |-> st_syndrome_x(i - 1)],
                            [i \in 1..3 |-> st_syndrome_z(i - 1)] >>
      [] c = "shor9" -> << [i \in 1..8 |-> sh_ancilla_q(i - 1)] >>
      [] c = "bacon_shor" -> << [i \in 1..6 |-> bs_x_syndrome(i - 1)],
                                [i \in 1..6 |-> bs_z_syndrome(i - 1)] >>
      [] c = "surface" -> << [i \in 1..4 |-> sf_syndrome_x(i - 1)],
                             [i \in 1..4 |-> sf_syndrome_z(i - 1)] >>
      [] c = "toric" -> << [i \in 1..4 |-> tc_vertex_syn(i - 1)],
                           [i \in 1..4 |-> tc_plaquette_syn(i - 1)] >>

\* the generator measured into bit i (from 1) of syndrome register r
Generator(c, r, i) == GadgetPauli(StabilizerGates(c), SyndromeRegisters(c)[r][i])

Generators(c) ==
    UNION {{Generator(c, r, i) : i \in DOMAIN SyndromeRegisters(c)[r]} :
              r \in DOMAIN SyndromeRegisters(c)}

\* data qubit i of each script, as a qubit of its circuit
DataQubit(c, i) ==
    CASE c = "bitflip" -> bf_physical(i)
      [] c = "phase_flip" -> pf_physical(i)
      [] c = "five_qubit" -> fq_physical(i)
      [] c = "steane" -> st_physical(i)
      [] c = "shor9" -> sh_physical_q(i)
      [] c = "bacon_shor" -> bs_data(i)
      [] c = "surface" -> sf_physical(i)
      [] c = "toric" -> tc_data(i)

\* the X gates a gate list applies, as a Pauli string
XString(gs) == [x |-> {q \in Touched(gs) : Odd(Times(gs, GX(q)))}, z |-> {}]

AllX(c, n) == [x |-> {DataQubit(c, i) : i \in 0..(n - 1)}, z |-> {}]

AllZ(c, n) == [x |-> {}, z |-> {DataQubit(c, i) : i \in 0..(n - 1)}]

\* the logical operators a script applies to the data qubits to prepare logical 1,
\* or documents in its module docstring
LogicalOperators(c) ==
    CASE c = "bitflip" -> {}
      [] c = "five_qubit" -> {AllX(c, 5), AllZ(c, 5)}
      [] c = "steane" -> {AllX(c, 7)}
      [] c = "shor9" -> {}
      [] c = "bacon_shor" -> {XString(bs_initialization(1))}
      [] c = "surface" -> {XString(sf_initialization(1))}
      [] c = "toric" -> {XString(tc_initialization(<<1, 0>>)),
                         XString(tc_initialization(<<0, 1>>))}

\* the syndrome register r of an error e on an eigenstate of the generators:
\* bit i is 1 iff e anticommutes with generator i; the highest bit is leftmost
SyndromeString(c, r, e) ==
    LET n == Len(SyndromeRegisters(c)[r])
    IN  [j \in 1..n |-> IF Commutes(e, Generator(c, r, n + 1 - j)) THEN "0" ELSE "1"]

SyndromeOf(c, e) == [r \in DOMAIN SyndromeRegisters(c) |-> SyndromeString(c, r, e)]

HasDecoder(c) == c \in {"five_qubit", "steane", "surface", "bacon_shor", "toric"}

\* the decoder call of each analyzer, on the syndrome registers in circuit order
DecodeOf(c, sy) ==
    CASE c = "five_qubit" -> decode_five_qubit_syndrome(sy[1])
      [] c = "steane" -> decode_steane_syndrome(sy[1], sy[2])
      [] c = "surface" -> decode_surface_syndrome(sy[1], sy[2])
      [] c = "bacon_shor" -> decode_bacon_shor_syndrome(sy[1], sy[2])
      [] c = "toric" -> decode_toric_syndrome(sy[1], sy[2])

(***************************************************************************)
(* The scripts as a state machine: run_* builds the circuit for the        *)
(* arguments, the simulator executes it instruction by instruction and     *)
(* samples `shots` outcomes into counts, and the analyzer of the script    *)
(* turns counts into its report.                                           *)
(***************************************************************************)
DataQubits(c) ==
    CASE c = "bitflip" -> 3
      [] c = "phase_flip" -> 3
      [] c = "five_qubit" -> 5
      [] c = "steane" -> 7
      [] c = "shor9" -> 9
      [] c = "bacon_shor" -> 9
      [] c = "surface" -> 9
      [] c = "toric" -> 16

ErrorTypes(c) ==
    CASE c = "bitflip" -> {"X"}
      [] c = "phase_flip" -> {"Z"}
      [] c = "shor9" -> {"X", "Z", "XZ"}
      [] OTHER -> {"X", "Z", "Y"}

\* the input values of the script: one bit, or a pair of bits for the toric code
InputsOf(c) ==
    IF c = "toric" THEN {<<0, 0>>, <<0, 1>>, <<1, 0>>, <<1, 1>>} ELSE {0, 1}

CircuitOf(c, iv, apply, eq, et) ==
    CASE c = "bitflip" -> create_bitflip_code(iv, apply, eq)
      [] c = "phase_flip" -> create_phase_flip_code(iv, apply, eq)
      [] c = "five_qubit" -> create_five_qubit_code(iv, apply, eq, et)
      [] c = "steane" -> create_steane_code(iv, apply, eq, et)
      [] c = "surface" -> create_surface_code(iv, apply, eq, et)
      [] c = "bacon_shor" -> create_bacon_shor_code(iv, apply, eq, et)
      [] c = "toric" -> create_toric_code(iv, apply, eq, et)
      [] c = "shor9" -> create_shors_9qubit_code(iv, apply /\ et \in {"X", "XZ"},
                                                 apply /\ et \in {"Z", "XZ"}, eq)

CregsOf(c) ==
    CASE c = "bitflip" -> bf_cregs
      [] c = "phase_flip" -> pf_cregs
      [] c = "five_qubit" -> fq_cregs
      [] c = "steane" -> st_cregs
      [] c = "surface" -> sf_cregs
      [] c = "bacon_shor" -> bs_cregs
      [] c = "toric" -> tc_cregs
      [] c = "shor9" -> sh_cregs

AnalyzeOf(c, cnts, iv) ==
    CASE c = "bitflip" -> bf_analyze_results(cnts, iv)
      [] c = "phase_flip" -> pf_analyze_results(cnts, iv)
      [] c = "five_qubit" -> analyze_five_qubit_results(cnts, iv)
      [] c = "steane" -> analyze_steane_results(cnts, iv)
      [] c = "surface" -> analyze_surface_results(cnts, iv)
      [] c = "bacon_shor" -> analyze_bacon_shor_results(cnts, iv)
      [] c = "toric" -> analyze_toric_results(cnts, iv)
      [] c = "shor9" -> sh_analyze_results(cnts, iv)

Circuit == CircuitOf(code, input_value, apply_error, error_qubit, error_type)

NoReport == [raised |-> FALSE]

\* nothing called yet
NoCall == [pc |-> "idle"]

InitOthers ==
    /\ batches = <<>>
    /\ batch_reports = <<>>
    /\ gadget = NoCall
    /\ rnd = NoCall
    /\ chan = NoCall

NoError == [x |-> {}, z |-> {}]

InitRun(codes, maxshots) ==
    /\ code \in codes
    /\ input_value \in InputsOf(code)
    /\ apply_error \in BOOLEAN
    /\ error_qubit \in 0..(DataQubits(code) - 1)
    /\ error_type \in ErrorTypes(code)
    /\ shots \in 1..maxshots
    /\ pc = "run"
    /\ ip = 1
    /\ psi = ZeroState
    /\ counts = EmptyCounts
    /\ report = NoReport
    /\ err = NoError
    /\ syn = <<>>
    /\ dec = <<>>
    /\ InitOthers

args == <<code, input_value, apply_error, error_qubit, error_type, shots>>

\* the simulator executes the next instruction of the given kind
StepGate(kind) ==
    /\ pc = "run"
    /\ ip <= Len(Circuit)
    /\ Circuit[ip][1] = kind
    /\ psi' = ApplyGate(psi, Circuit[ip])
    /\ ip' = ip + 1
    /\ UNCHANGED <<others, args, pc, counts, report, err, syn, dec>>

\* the measurements end the circuit: one shot's outcome is added to counts
Shot ==
    /\ pc = "run"
    /\ ip <= Len(Circuit)
    /\ Circuit[ip][1] = "measure"
    /\ TotalShots(counts) < shots
    /\ \E k \in DOMAIN psi :
          counts' = AddShot(counts, Memory(k, Circuit, CregsOf(code)))
    /\ UNCHANGED <<others, args, pc, ip, psi, report, err, syn, dec>>

\* job.result().get_counts(): all shots are done
GetCounts ==
    /\ pc = "run"
    /\ ip <= Len(Circuit)
    /\ Circuit[ip][1] = "measure"
    /\ TotalShots(counts) = shots
    /\ pc' = "analyze"
    /\ psi' = ZeroState
    /\ UNCHANGED <<others, args, ip, counts, report, err, syn, dec>>

\* the script's analyzer, called with the run's input value
Analyze ==
    /\ pc = "analyze"
    /\ report' = AnalyzeOf(code, counts, input_value)
    /\ pc' = "done"
    /\ UNCHANGED <<others, args, ip, psi, counts, err, syn, dec>>

InitBitflip == InitRun({"bitflip"}, MaxShots)

NextBitflip ==
    \/ StepGate("x")
    \/ StepGate("cx")
    \/ StepGate("barrier")
    \/ Shot
    \/ GetCounts
    \/ Analyze

SpecBitflip == InitBitflip /\ [][NextBitflip]_vars

(***************************************************************************)
(* The create_* functions as builders: qc is the list of the instructions  *)
(* appended so far, the first ip - 1 instructions of the circuit.          *)
(***************************************************************************)
AllCodes == {"bitflip", "phase_flip", "five_qubit", "steane", "shor9",
             "bacon_shor", "surface", "toric"}

InitBuild ==
    /\ code \in AllCodes
    /\ input_value \in InputsOf(code)
    /\ apply_error \in BOOLEAN
    /\ error_qubit \in 0..(DataQubits(code) - 1)
    /\ error_type \in ErrorTypes(code)
    /\ shots = 0
    /\ pc = "build"
    /\ ip = 1
    /\ psi = ZeroState
    /\ counts = EmptyCounts
    /\ report = NoReport
    /\ err = NoError
    /\ syn = <<>>
    /\ dec = <<>>
    /\ InitOthers

\* the instructions appended so far
qc == SubSeq(Circuit, 1, ip - 1)

\* the next statement of the function appends its instruction
AppendInstruction ==
    /\ pc = "build"
    /\ ip <= Len(Circuit)
    /\ ip' = ip + 1
    /\ UNCHANGED <<others, args, pc, psi, counts, report, err, syn, dec>>

\* return qc, ...
ReturnCircuit ==
    /\ pc = "build"
    /\ ip = Len(Circuit) + 1
    /\ pc' = "built"
    /\ UNCHANGED <<others, args, ip, psi, counts, report, err, syn, dec>>

NextBuild ==
    \/ AppendInstruction
    \/ ReturnCircuit

SpecBuild == InitBuild /\ [][NextBuild]_vars

InitPhaseFlip == InitRun({"phase_flip"}, MaxShots)

NextPhaseFlip ==
    \/ StepGate("x")
    \/ StepGate("z")
    \/ StepGate("h")
    \/ StepGate("cx")
    \/ StepGate("barrier")
    \/ Shot
    \/ GetCounts
    \/ Analyze

SpecPhaseFlip == InitPhaseFlip /\ [][NextPhaseFlip]_vars

InitFive == InitRun({"five_qubit"}, MaxShotsRandom)

NextFive ==
    \/ StepGate("x")
    \/ StepGate("y")
    \/ StepGate("z")
    \/ StepGate("h")
    \/ StepGate("cx")
    \/ StepGate("cz")
    \/ StepGate("barrier")
    \/ Shot
    \/ GetCounts
    \/ Analyze

SpecFive == InitFive /\ [][NextFive]_vars

InitSteane == InitRun({"steane"}, MaxShotsRandom)

NextSteane ==
    \/ StepGate("x")
    \/ StepGate("y")
    \/ StepGate("z")
    \/ StepGate("h")
    \/ StepGate("cx")
    \/ StepGate("barrier")
    \/ Shot
    \/ GetCounts
    \/ Analyze

SpecSteane == InitSteane /\ [][NextSteane]_vars

\* the scripts run without an injected error
InitNoError ==
    /\ InitRun({"steane", "surface", "bacon_shor", "toric"}, MaxShotsRandom)
    /\ apply_error = FALSE
    /\ error_qubit = 0
    /\ error_type = "X"

SpecNoError == InitNoError /\ [][NextSteane]_vars

InitShor == InitRun({"shor9"}, MaxShotsRandom)

NextShor ==
    \/ StepGate("x")
    \/ StepGate("z")
    \/ StepGate("cx")
    \/ StepGate("barrier")
    \/ Shot
    \/ GetCounts
    \/ Analyze

SpecShor == InitShor /\ [][NextShor]_vars

(***************************************************************************)
(* Decoding as a state machine: Pauli errors are put on the data qubits    *)
(* in increasing qubit order (at most one per qubit), the syndrome of the  *)
(* error is extracted, and the script's decoder is applied to it.          *)
(***************************************************************************)
InitDecode ==
    /\ code \in {"bitflip", "five_qubit", "steane", "shor9",
                 "bacon_shor", "surface", "toric"}
    /\ input_value = 0
    /\ apply_error = FALSE
    /\ error_qubit = 0
    /\ error_type = "X"
    /\ shots = 0
    /\ pc = "inject"
    /\ ip = 0
    /\ psi = ZeroState
    /\ counts = EmptyCounts
    /\ report = NoReport
    /\ err = NoError
    /\ syn = <<>>
    /\ dec = <<>>
    /\ InitOthers

\* qubit q (the next qubits being skipped) gets the error of type t
InjectError ==
    /\ pc = "inject"
    /\ Weight(err) < MaxWeight
    /\ ip < DataQubits(code)
    /\ \E q \in ip..(DataQubits(code) - 1), t \in {"X", "Y", "Z"} :
          /\ err' = Multiply(err, PauliOn(DataQubit(code, q), t))
          /\ ip' = q + 1
    /\ UNCHANGED <<others, code, input_value, apply_error, error_qubit, error_type, shots,
                   pc, psi, counts, report, syn, dec>>

ExtractSyndrome ==
    /\ pc = "inject"
    /\ syn' = SyndromeOf(code, err)
    /\ pc' = "extracted"
    /\ UNCHANGED <<others, args, ip, psi, counts, report, err, dec>>

Decode ==
    /\ pc = "extracted"
    /\ HasDecoder(code)
    /\ dec' = DecodeOf(code, syn)
    /\ pc' = "decoded"
    /\ UNCHANGED <<others, args, ip, psi, counts, report, err, syn>>

NextDecode ==
    \/ InjectError
    \/ ExtractSyndrome
    \/ Decode

SpecDecode == InitDecode /\ [][NextDecode]_vars


(***************************************************************************)
(* One syndrome gadget on its own: the data qubits are prepared in an      *)
(* eigenstate of the gadget's Pauli string (a basis state, with H on the   *)
(* qubits where the string has X), the gates of the gadget are executed,   *)
(* and the ancilla is measured.                                            *)
(***************************************************************************)
RECURSIVE ApplyAll(_, _)
ApplyAll(st, gs) == IF gs = <<>> THEN st ELSE ApplyAll(ApplyGate(st, Head(gs)), Tail(gs))

GateQubits(g) == {g[j] : j \in 2..Len(g)}

\* the gates of the stabilizer measurements that act on ancilla a
GadgetGates(c, a) == SelectSeq(StabilizerGates(c), LAMBDA g : a \in GateQubits(g))

\* the positions of those gates in the stabilizer measurements
GadgetPositions(c, a) == {i \in DOMAIN StabilizerGates(c) : a \in GateQubits(StabilizerGates(c)[i])}

RECURSIVE SetToSeq(_)
SetToSeq(S) ==
    IF S = {} THEN <<>>
    ELSE LET q == CHOOSE x \in S : \A y \in S : x <= y
         IN  <<q>> \o SetToSeq(S \ {q})

\* X on the qubits in ones, then H on the qubits in xs
EigenstateGates(ones, xs) ==
    [i \in 1..Cardinality(ones) |-> GX(SetToSeq(ones)[i])]
    \o [i \in 1..Cardinality(xs) |-> GH(SetToSeq(xs)[i])]

GadgetCodes == {"five_qubit", "steane", "surface", "bacon_shor", "toric"}

InitGadget ==
    /\ code \in GadgetCodes
    /\ input_value = 0
    /\ apply_error = FALSE
    /\ error_qubit = 0
    /\ error_type = "X"
    /\ shots = 1
    /\ pc = "gadget"
    /\ ip = 1
    /\ psi = ZeroState
    /\ counts = EmptyCounts
    /\ report = NoReport
    /\ err = NoError
    /\ syn = <<>>
    /\ dec = <<>>
    /\ batches = <<>>
    /\ batch_reports = <<>>
    /\ rnd = NoCall
    /\ chan = NoCall
    /\ \E r \in DOMAIN SyndromeRegisters(code) :
          \E i \in DOMAIN SyndromeRegisters(code)[r] :
             \E ones \in SUBSET PauliSupport(Generator(code, r, i)) :
                gadget = [pc |-> "prepare", r |-> r, i |-> i, ones |-> ones, bit |-> 0]

GadgetAncilla == SyndromeRegisters(code)[gadget.r][gadget.i]

PrepareEigenstate ==
    /\ pc = "gadget"
    /\ gadget.pc = "prepare"
    /\ psi' = ApplyAll(psi, EigenstateGates(gadget.ones,
                                            Generator(code, gadget.r, gadget.i).x))
    /\ gadget' = [gadget EXCEPT !.pc = "run"]
    /\ UNCHANGED <<args, pc, ip, counts, report, err, syn, dec,
                   batches, batch_reports, rnd, chan>>

StepGadget ==
    /\ pc = "gadget"
    /\ gadget.pc = "run"
    /\ ip <= Len(GadgetGates(code, GadgetAncilla))
    /\ psi' = ApplyGate(psi, GadgetGates(code, GadgetAncilla)[ip])
    /\ ip' = ip + 1
    /\ UNCHANGED <<others, args, pc, counts, report, err, syn, dec>>

MeasureAncilla ==
    /\ pc = "gadget"
    /\ gadget.pc = "run"
    /\ ip > Len(GadgetGates(code, GadgetAncilla))
    /\ \E k \in DOMAIN psi :
          gadget' = [gadget EXCEPT !.pc = "measured", !.bit = Bit(k, GadgetAncilla)]
    /\ UNCHANGED <<args, pc, ip, psi, counts, report, err, syn, dec,
                   batches, batch_reports, rnd, chan>>

NextGadget ==
    \/ PrepareEigenstate
    \/ StepGadget
    \/ MeasureAncilla

SpecGadget == InitGadget /\ [][NextGadget]_vars

(***************************************************************************)
(* The surface and toric decoders applied to any pair of 4-bit syndrome    *)
(* strings.                                                                *)
(***************************************************************************)
BitStrings(n) == [1..n -> {"0", "1"}]

InitClassify ==
    /\ code \in {"surface", "toric"}
    /\ input_value = 0
    /\ apply_error = FALSE
    /\ error_qubit = 0
    /\ error_type = "X"
    /\ shots = 0
    /\ pc = "extracted"
    /\ ip = 0
    /\ psi = ZeroState
    /\ counts = EmptyCounts
    /\ report = NoReport
    /\ err = NoError
    /\ syn \in BitStrings(4) \X BitStrings(4)
    /\ dec = <<>>
    /\ InitOthers

SpecClassify == InitClassify /\ [][Decode]_vars

(***************************************************************************)
(* error_models.py: apply_random_errors and custom_pauli_channel, each as  *)
(* a call executing statement by statement.  np.random.random() draws a    *)
(* number in [0, 1); np.random.choice draws an element of the list.        *)
(***************************************************************************)
RandomDraws == 0..(RateSteps - 1)

Probabilities == (0 - 1)..(RateSteps + 1)

ErrorTypeLists ==
    {<<"X">>, <<"Y">>, <<"Z">>, <<"X", "Y">>, <<"X", "Z">>, <<"Y", "Z">>, <<"X", "Y", "Z">>}

\* the if/elif chain without the 'Y' branch
RandomErrorGateNoY(etype, qubit) ==
    IF etype = "X" THEN <<GX(qubit)>>
    ELSE IF etype = "Z" THEN <<GZ(qubit)>>
    ELSE <<>>

\* the gate the if/elif chain appends for the drawn type
RandomErrorGate(etype, qubit) ==
    IF etype = "X" THEN <<GX(qubit)>>
    ELSE IF etype = "Y" THEN <<GY(qubit)>>
    ELSE IF etype = "Z" THEN <<GZ(qubit)>>
    ELSE <<>>

\* the test without the case of a sum equal to 1
SumAtLeastOne(px, py, pz) == px + py + pz >= RateSteps

\* px + py + pz > 1
SumExceedsOne(px, py, pz) == px + py + pz > RateSteps

InitErrorModels ==
    /\ code = "error_models"
    /\ input_value = 0
    /\ apply_error = FALSE
    /\ error_qubit = 0
    /\ error_type = "X"
    /\ shots = 0
    /\ pc = "call"
    /\ ip = 0
    /\ psi = ZeroState
    /\ counts = EmptyCounts
    /\ report = NoReport
    /\ err = NoError
    /\ syn = <<>>
    /\ dec = <<>>
    /\ batches = <<>>
    /\ batch_reports = <<>>
    /\ gadget = NoCall
    /\ \/ /\ chan = NoCall
          /\ \E n \in 0..MaxQubits, rate \in Probabilities, types \in ErrorTypeLists :
                rnd = [pc |-> "loop", num_qubits |-> n, error_rate |-> rate,
                       error_types |-> types, qubit |-> 0, circuit |-> <<>>,
                       errors_applied |-> <<>>]
       \/ /\ rnd = NoCall
          /\ \E px \in Probabilities, py \in Probabilities, pz \in Probabilities :
                chan = [pc |-> "check", px |-> px, py |-> py, pz |-> pz, pi |-> 0,
                        error |-> None, noise_model |-> None]

unchanged_run == <<args, pc, ip, psi, counts, report, err, syn, dec,
                   batches, batch_reports, gadget>>

\* the draw is not below error_rate: the qubit gets no error
SkipQubit ==
    /\ rnd.pc = "loop"
    /\ rnd.qubit < rnd.num_qubits
    /\ \E r \in RandomDraws : ~(r < rnd.error_rate)
    /\ rnd' = [rnd EXCEPT !.qubit = @ + 1]
    /\ UNCHANGED <<unchanged_run, chan>>

\* the draw is below error_rate: a type is drawn, recorded and its gate appended
ErrorOnQubit ==
    /\ rnd.pc = "loop"
    /\ rnd.qubit < rnd.num_qubits
    /\ \E r \in RandomDraws : r < rnd.error_rate
    /\ \E k \in DOMAIN rnd.error_types :
          rnd' = [rnd EXCEPT
                    !.errors_applied = Append(@, <<rnd.qubit, rnd.error_types[k]>>),
                    !.circuit = @ \o RandomErrorGate(rnd.error_types[k], rnd.qubit),
                    !.qubit = @ + 1]
    /\ UNCHANGED <<unchanged_run, chan>>

ReturnErrors ==
    /\ rnd.pc = "loop"
    /\ rnd.qubit = rnd.num_qubits
    /\ rnd' = [rnd EXCEPT !.pc = "returned"]
    /\ UNCHANGED <<unchanged_run, chan>>

\* the test of the sum, then pi
CheckSum ==
    /\ chan.pc = "check"
    /\ chan' = IF SumExceedsOne(chan.px, chan.py, chan.pz)
               THEN [chan EXCEPT !.pc = "ValueError"]
               ELSE [chan EXCEPT !.pc = "build",
                                 !.pi = RateSteps - (chan.px + chan.py + chan.pz)]
    /\ UNCHANGED <<unchanged_run, rnd>>

\* pauli_error of the library: it builds the error from the four probabilities;
\* what it does with a probability outside [0, 1] is the library's choice
BuildError ==
    /\ chan.pc = "build"
    /\ \/ chan' = [chan EXCEPT !.pc = "add",
                     !.error = Some(<< <<"X", chan.px>>, <<"Y", chan.py>>,
                                       <<"Z", chan.pz>>, <<"I", chan.pi>> >>)]
       \/ /\ \E p \in {chan.px, chan.py, chan.pz, chan.pi} : p \notin 0..RateSteps
          /\ chan' = [chan EXCEPT !.pc = "NoiseError"]
    /\ UNCHANGED <<unchanged_run, rnd>>

ReturnNoiseModel ==
    /\ chan.pc = "add"
    /\ chan' = [chan EXCEPT !.pc = "returned", !.noise_model = chan.error]
    /\ UNCHANGED <<unchanged_run, rnd>>

NextErrorModels ==
    \/ SkipQubit
    \/ ErrorOnQubit
    \/ ReturnErrors
    \/ CheckSum
    \/ BuildError
    \/ ReturnNoiseModel

SpecErrorModels == InitErrorModels /\ [][NextErrorModels]_vars

(***************************************************************************)
(* Batches: a histogram of outcomes is collected, split into two batches,  *)
(* and the script's analyzer is applied to each batch and to the whole.    *)
(***************************************************************************)
Repeat(ch, n) == [i \in 1..n |-> ch]

\* outcome strings of the circuit's width: each register all zeros or all ones
RECURSIVE SampleFrom(_, _)
SampleFrom(cregs, r) ==
    IF r = 0 THEN {<<>>}
    ELSE {Repeat(ch, cregs[r]) \o (IF r = 1 THEN <<>> ELSE <<" ">> \o rest) :
             ch \in {"0", "1"}, rest \in SampleFrom(cregs, r - 1)}

SampleOutcomes(c) == SampleFrom(CregsOf(c), Len(CregsOf(c)))

Amount(cnts, m) == IF m \in DOMAIN cnts THEN cnts[m] ELSE 0

\* the histograms contained in cnts
SubHistograms(cnts) ==
    {f \in UNION {[S -> 1..MaxTrials] : S \in SUBSET DOMAIN cnts} :
        \A m \in DOMAIN f : f[m] <= cnts[m]}

\* what is left of cnts when the histogram f is taken out of it
Rest(cnts, f) ==
    [m \in {k \in DOMAIN cnts : Amount(f, k) < cnts[k]} |-> cnts[m] - Amount(f, m)]

IsMajorityAnalyzer(c) == c \in {"bitflip", "phase_flip", "shor9"}

\* the tallies of a report
SuccessOf(c, r) == IF IsMajorityAnalyzer(c) THEN r.success ELSE r.successful

TotalOf(c, r) == IF IsMajorityAnalyzer(c) THEN r.total ELSE r.total_shots

SyndromeKeys(c, r) == IF IsMajorityAnalyzer(c) THEN {} ELSE DOMAIN r.syndrome_stats

SyndromeCount(c, r, s) == IF s \in SyndromeKeys(c, r) THEN r.syndrome_stats[s].count ELSE 0

InitAggregate ==
    /\ code \in AllCodes
    /\ input_value \in InputsOf(code)
    /\ apply_error = FALSE
    /\ error_qubit = 0
    /\ error_type = "X"
    /\ shots = MaxTrials
    /\ pc = "collect"
    /\ ip = 0
    /\ psi = ZeroState
    /\ counts = EmptyCounts
    /\ report = NoReport
    /\ err = NoError
    /\ syn = <<>>
    /\ dec = <<>>
    /\ InitOthers

\* one more trial's outcome is added to the histogram
RecordOutcome ==
    /\ pc = "collect"
    /\ TotalShots(counts) < shots
    /\ \E m \in SampleOutcomes(code) : counts' = AddShot(counts, m)
    /\ UNCHANGED <<others, args, pc, ip, psi, report, err, syn, dec>>

SplitBatches ==
    /\ pc = "collect"
    /\ \E f \in SubHistograms(counts) : batches' = <<f, Rest(counts, f)>>
    /\ pc' = "split"
    /\ UNCHANGED <<args, ip, psi, counts, report, err, syn, dec,
                   batch_reports, gadget, rnd, chan>>

AnalyzeBatches ==
    /\ pc = "split"
    /\ batch_reports' = [i \in 1..2 |-> AnalyzeOf(code, batches[i], input_value)]
    /\ report' = AnalyzeOf(code, counts, input_value)
    /\ pc' = "done"
    /\ UNCHANGED <<args, ip, psi, counts, err, syn, dec, batches, gadget, rnd, chan>>

NextAggregate ==
    \/ RecordOutcome
    \/ SplitBatches
    \/ AnalyzeBatches

SpecAggregate == InitAggregate /\ [][NextAggregate]_vars

(***************************************************************************)
(* Notions the claims are stated with.                                     *)
(***************************************************************************)
Zeros(n) == [i \in 1..n |-> "0"]

Unknown == <<None, Some("Unknown")>>

\* the entry a lookup that keeps the first of several equal keys would return
DictFirst(pairs, key, default) ==
    LET hits == {i \in DOMAIN pairs : pairs[i][1] = key}
    IN  IF hits = {} THEN default
        ELSE pairs[CHOOSE i \in hits : \A j \in hits : i <= j][2]

\* the error is the single Pauli t on data qubit q of the code
IsSingle(q, t) == err = PauliOn(DataQubit(code, q), t)

(***************************************************************************)
(* C1: commutation closure.  For every code, the Pauli strings measured    *)
(* by the syndrome gadgets of its create_* function commute pairwise, and  *)
(* each commutes with the logical operators the code applies or documents. *)
(***************************************************************************)
C1_CommutationClosure ==
    \A p \in Generators(code) :
        \A q \in Generators(code) \cup LogicalOperators(code) : Commutes(p, q)

(***************************************************************************)
(* C2: for every input and every error configuration of the 3-qubit       *)
(* repetition code, analyze_results counts every outcome of the run as a   *)
(* success (success rate 100%).                                            *)
(***************************************************************************)
C2_RoundTrip ==
    (code = "bitflip" /\ pc = "done")
        => (report.total > 0 /\ report.success = report.total)

(***************************************************************************)
(* C3: five-qubit code without an error.  For either input, every shot of  *)
(* the circuit built with apply_error false has syndrome 0000, and the     *)
(* analyzer reports every shot as a success.                               *)
(***************************************************************************)
C3_NoErrorSyndromeZero ==
    (code = "five_qubit" /\ ~apply_error /\ pc = "done")
        => /\ \A s \in DOMAIN report.syndrome_stats : s = Zeros(4)
           /\ report.successful = report.total_shots

(***************************************************************************)
(* C4: the five-qubit table matches the generators.  For a single error t  *)
(* on qubit q, decode_five_qubit_syndrome applied to the string S4 S3 S2   *)
(* S1 of its anticommutations with the measured generators returns (q, t). *)
(***************************************************************************)
C4_TableMatchesGenerators ==
    (code = "five_qubit" /\ pc = "decoded" /\ Weight(err) = 1)
        => \A q \in 0..4, t \in {"X", "Y", "Z"} :
              IsSingle(q, t) => dec = <<Some(q), Some(t)>>

(***************************************************************************)
(* C5: the five-qubit generators correct any single-qubit error.  The      *)
(* syndrome of an error of weight 1 or 2 is never 0000 (no such Pauli      *)
(* string commutes with all four generators), and the syndrome of a single *)
(* error differs from that of every other single error.                    *)
(***************************************************************************)
C5_SingleErrorsDistinct ==
    (code = "five_qubit" /\ pc = "extracted" /\ Weight(err) \in {1, 2})
        => /\ syn[1] # Zeros(4)
           /\ Weight(err) = 1
                => \A q \in 0..4, t \in {"X", "Y", "Z"} :
                      ~IsSingle(q, t)
                          => SyndromeOf(code, PauliOn(DataQubit(code, q), t)) # syn

C5_Witness ==
    /\ code = "five_qubit"
    /\ pc = "extracted"
    /\ IsSingle(2, "Y")
    /\ syn = << <<"0", "1", "1", "1">> >>

(***************************************************************************)
(* C6: the decoder's tie-break keeps the first entry.  For a syndrome key  *)
(* the five-qubit table lists more than once, decode_five_qubit_syndrome   *)
(* returns the first-listed entry.                                         *)
(***************************************************************************)
C6_FirstEntryKept ==
    (code = "five_qubit" /\ pc = "decoded")
        => dec = DictFirst(fq_syndrome_table, syn[1], Unknown)

(***************************************************************************)
(* C7: Steane independence.  For an X error on one qubit together with a   *)
(* Z error on another qubit (X on 3 and Z on 5, say), the result of        *)
(* decode_steane_syndrome names corrections: it is not the unknown result. *)
(***************************************************************************)
C7_SteaneIndependence ==
    (code = "steane" /\ pc = "decoded" /\ Weight(err) = 2
        /\ Cardinality(err.x) = 1 /\ Cardinality(err.z) = 1)
        => dec # Unknown

(***************************************************************************)
(* C8: Steane single-error lookup.  A single X (resp. Z) error on data     *)
(* qubit q has a non-zero syndrome, different from that of the same error  *)
(* on every other qubit, and decode_steane_syndrome returns (q, 'X')       *)
(* (resp. (q, 'Z')) for it.                                                *)
(***************************************************************************)
C8_SteaneSingleLookup ==
    (code = "steane" /\ pc = "decoded")
        => \A q \in 0..6, t \in {"X", "Z"} :
              IsSingle(q, t)
                  => /\ syn # <<Zeros(3), Zeros(3)>>
                     /\ \A o \in 0..6 :
                           o # q => SyndromeOf(code, PauliOn(DataQubit(code, o), t)) # syn
                     /\ dec = <<Some(q), Some(t)>>

(***************************************************************************)
(* C9: success criterion.  A shot of a run with one injected error whose   *)
(* syndrome decodes to exactly that error is counted as successful: the    *)
(* analyzer's count of successes is at least the number of such shots.     *)
(***************************************************************************)
C9_CorrectDecodeIsSuccess ==
    (code = "five_qubit" /\ pc = "done" /\ apply_error)
        => report.successful >=
              CountIn(counts, {m \in DOMAIN counts :
                  decode_five_qubit_syndrome(fq_parse(m).syndrome_bits)
                      = <<Some(error_qubit), Some(error_type)>>})

(***************************************************************************)
(* C10: ambiguity is never hidden.  A report row whose syndrome the        *)
(* decoder could not resolve (result unknown) is not labelled "No error".  *)
(***************************************************************************)
C10_UnknownNotNoError ==
    (code = "five_qubit" /\ pc = "done")
        => \A s \in DOMAIN report.rows :
              report.syndrome_stats[s].error = Unknown
                  => report.rows[s] # <<"No error">>

(***************************************************************************)
(* C11: aggregation is a reduction.  When a histogram is split into two    *)
(* batches and the analyzer returns for each batch and for the whole, the  *)
(* success counts of the batches add up to the success count of the whole, *)
(* and so do the totals and the counts of each syndrome.                   *)
(***************************************************************************)
C11_AggregationAdditive ==
    (pc = "done" /\ batches # <<>>
        /\ ~report.raised /\ ~batch_reports[1].raised /\ ~batch_reports[2].raised)
        => /\ SuccessOf(code, batch_reports[1]) + SuccessOf(code, batch_reports[2])
                = SuccessOf(code, report)
           /\ TotalOf(code, batch_reports[1]) + TotalOf(code, batch_reports[2])
                = TotalOf(code, report)
           /\ SyndromeKeys(code, batch_reports[1]) \cup SyndromeKeys(code, batch_reports[2])
                = SyndromeKeys(code, report)
           /\ \A s \in SyndromeKeys(code, report) :
                 SyndromeCount(code, batch_reports[1], s)
                    + SyndromeCount(code, batch_reports[2], s)
                    = SyndromeCount(code, report, s)

C11_Witness ==
    /\ pc = "done"
    /\ code = "five_qubit"
    /\ TotalShots(counts) = 3
    /\ TotalShots(batches[1]) = 1
    /\ DOMAIN batches[1] = DOMAIN batches[2]
    /\ ~batch_reports[1].raised /\ ~batch_reports[2].raised
    /\ report.successful = 3

(***************************************************************************)
(* C12: gadget correctness.  For every syndrome gadget of the five-qubit,  *)
(* Steane, surface, Bacon-Shor and toric circuits, on an eigenstate of the *)
(* Pauli string read off the gadget the ancilla measures 0 when the        *)
(* eigenvalue is +1 and 1 when it is -1; the string has no Y, and the      *)
(* gates on the ancilla form one uninterrupted gadget.                     *)
(***************************************************************************)
C12_GadgetCorrect ==
    (pc = "gadget" /\ gadget.pc = "measured")
        => /\ gadget.bit = Cardinality(gadget.ones) % 2
           /\ Generator(code, gadget.r, gadget.i).x
                 \cap Generator(code, gadget.r, gadget.i).z = {}
           /\ \A p, q \in GadgetPositions(code, GadgetAncilla) :
                 \A m \in p..q : m \in GadgetPositions(code, GadgetAncilla)

C12_Witness ==
    /\ pc = "gadget"
    /\ gadget.pc = "measured"
    /\ code = "five_qubit"
    /\ Cardinality(gadget.ones) = 3
    /\ gadget.bit = 1

(***************************************************************************)
(* C13: no error means zero syndrome.  For the Steane, surface, Bacon-Shor *)
(* and toric circuits built without an error, for every input value, every *)
(* shot has an all-zero syndrome in both syndrome registers and the        *)
(* analyzer counts every shot as successful.                               *)
(***************************************************************************)
C13_NoErrorZeroSyndrome ==
    (pc = "done" /\ ~apply_error /\ code \in {"steane", "surface", "bacon_shor", "toric"})
        => /\ \A s \in DOMAIN report.syndrome_stats :
                 \A r \in 1..2 : \A j \in DOMAIN s[r] : s[r][j] = "0"
           /\ report.successful = report.total_shots

\* the same for one script at a time
C13_SurfaceZero == code = "surface" => C13_NoErrorZeroSyndrome

C13_BaconShorZero == code = "bacon_shor" => C13_NoErrorZeroSyndrome

C13_ToricZero == code = "toric" => C13_NoErrorZeroSyndrome

C13_SteaneZero == code = "steane" => C13_NoErrorZeroSyndrome

(***************************************************************************)
(* C14: Shor-9 detects phase flips.  For every input and every qubit q, a  *)
(* single Z error on q gives an 8-bit syndrome that is not zero, in which  *)
(* ancilla 6 or ancilla 7 fires, and that differs from the syndrome of the *)
(* run without an error.                                                   *)
(***************************************************************************)
ShorSyndrome(m) == Split(m)[2]

ShorCleanSyndromes(iv) ==
    {ShorSyndrome(m) :
        m \in Outcomes(ApplyAll(ZeroState, create_shors_9qubit_code(iv, FALSE, FALSE, 0)),
                       create_shors_9qubit_code(iv, FALSE, FALSE, 0), sh_cregs)}

C14_PhaseFlipDetected ==
    (code = "shor9" /\ pc = "done" /\ apply_error /\ error_type = "Z")
        => \A m \in DOMAIN counts :
              /\ ShorSyndrome(m) # Zeros(8)
              /\ (ShorSyndrome(m)[1] = "1" \/ ShorSyndrome(m)[2] = "1")
              /\ ShorSyndrome(m) \notin ShorCleanSyndromes(input_value)

(***************************************************************************)
(* C15: Shor-9 majority-vote recovery.  For every input, every qubit and   *)
(* every single error (none, X, Z, or X and Z on the qubit), the analyzer  *)
(* recovers the input from every outcome: all shots are successes.         *)
(***************************************************************************)
C15_ShorMajorityRecovers ==
    (code = "shor9" /\ pc = "done")
        => /\ report.total = shots
           /\ report.success = report.total
           /\ \A m \in DOMAIN counts : report.result[m] = input_value

C15_Witness ==
    /\ code = "shor9"
    /\ pc = "done"
    /\ apply_error
    /\ error_type = "XZ"
    /\ error_qubit = 4
    /\ input_value = 1
    /\ \E m \in DOMAIN counts : StrCount(Split(m)[1], "1") = 8
    /\ report.success = shots

(***************************************************************************)
(* C16: single-error detection in the surface and toric codes.  Every      *)
(* single-qubit X, Y or Z error on a data qubit has a non-zero syndrome    *)
(* under the stabilizers the circuit measures; an X error fires only       *)
(* Z-type checks and a Z error only X-type checks.                         *)
(***************************************************************************)
C16_SingleErrorDetected ==
    (code \in {"surface", "toric"} /\ pc = "extracted" /\ Weight(err) = 1)
        => /\ syn # <<Zeros(4), Zeros(4)>>
           /\ err.z = {} => (syn[1] = Zeros(4) /\ syn[2] # Zeros(4))
           /\ err.x = {} => (syn[1] # Zeros(4) /\ syn[2] = Zeros(4))

(***************************************************************************)
(* C17: surface and toric decode classification.  For every pair of 4-bit  *)
(* strings the decoder returns (None, None) when both are zero, type 'X'   *)
(* when only the Z/plaquette syndrome is non-zero, type 'Z' when only the  *)
(* X/vertex syndrome is non-zero, and the ambiguous category (type 'Y',    *)
(* no qubit named) when both are non-zero; it never returns 'Unknown'.     *)
(***************************************************************************)
AmbiguousDescription(d) ==
    IF code = "surface" THEN d = Some("Y-error or multiple errors")
    ELSE d # None /\ d[1][1] = "Mixed errors"

C17_DecodeClassification ==
    (code \in {"surface", "toric"} /\ pc = "decoded")
        => /\ (syn[1] = Zeros(4) /\ syn[2] = Zeros(4)) <=> dec = <<None, None>>
           /\ (syn[1] = Zeros(4) /\ syn[2] # Zeros(4)) <=> dec[2] = Some("X")
           /\ (syn[1] # Zeros(4) /\ syn[2] = Zeros(4)) <=> dec[2] = Some("Z")
           /\ (syn[1] # Zeros(4) /\ syn[2] # Zeros(4))
                 <=> (dec[2] = Some("Y") /\ AmbiguousDescription(dec[1]))
           /\ dec[2] # Some("Unknown")

C17_Witness ==
    /\ code = "toric"
    /\ pc = "decoded"
    /\ syn = << <<"0", "1", "1", "0">>, <<"0", "0", "0", "1">> >>
    /\ dec = <<Some(<<"Mixed errors", 2, 1>>), Some("Y")>>

(***************************************************************************)
(* C18: out-of-range probabilities are rejected.  apply_random_errors does *)
(* not return for an error_rate below 0 or above 1, and                    *)
(* custom_pauli_channel does not get past its test with px, py or pz       *)
(* below 0 or above 1.                                                     *)
(***************************************************************************)
C18_OutOfRangeRejected ==
    /\ rnd.pc = "returned" => rnd.error_rate \in 0..RateSteps
    /\ chan.pc = "build" => {chan.px, chan.py, chan.pz} \subseteq 0..RateSteps

(***************************************************************************)
(* C19: custom_pauli_channel raises ValueError exactly when px + py + pz   *)
(* exceeds 1, before any error object or noise model exists; otherwise the *)
(* identity probability is 1 - (px + py + pz) and the four probabilities   *)
(* sum to 1.                                                               *)
(***************************************************************************)
C19_ValueErrorIffSumExceedsOne ==
    chan.pc \notin {"idle", "check"}
        => /\ chan.pc = "ValueError" <=> chan.px + chan.py + chan.pz > RateSteps
           /\ chan.pc = "ValueError" => (chan.error = None /\ chan.noise_model = None)
           /\ chan.pc # "ValueError"
                => /\ chan.pi = RateSteps - (chan.px + chan.py + chan.pz)
                   /\ chan.px + chan.py + chan.pz + chan.pi = RateSteps

C19_Witness ==
    /\ chan.pc = "returned"
    /\ chan.px + chan.py + chan.pz = RateSteps
    /\ chan.px = 2
    /\ chan.pi = 0
    /\ chan.noise_model # None

(***************************************************************************)
(* C20: apply_random_errors reports exactly what it applied.  The returned *)
(* list has one (qubit, type) entry per appended Pauli gate, in the same   *)
(* order; qubits are in 0..num_qubits-1 and increase strictly; every type  *)
(* is in error_types; with error_rate 0 nothing is applied and with        *)
(* error_rate 1 every qubit gets exactly one error; while error_rate is    *)
(* strictly between 0 and 1 either decision is possible for each qubit.    *)
(***************************************************************************)
GateOf(entry) == RandomErrorGate(entry[2], entry[1])[1]

C20_ReportsWhatItApplied ==
    /\ rnd.pc = "returned"
         => /\ Len(rnd.circuit) = Len(rnd.errors_applied)
            /\ \A i \in DOMAIN rnd.errors_applied :
                  /\ rnd.circuit[i] = GateOf(rnd.errors_applied[i])
                  /\ rnd.circuit[i][1] \in {"x", "y", "z"}
                  /\ rnd.errors_applied[i][1] \in 0..(rnd.num_qubits - 1)
                  /\ \E k \in DOMAIN rnd.error_types :
                        rnd.errors_applied[i][2] = rnd.error_types[k]
                  /\ \A j \in DOMAIN rnd.errors_applied :
                        i < j => rnd.errors_applied[i][1] < rnd.errors_applied[j][1]
            /\ rnd.error_rate = 0 => (rnd.errors_applied = <<>> /\ rnd.circuit = <<>>)
            /\ rnd.error_rate = RateSteps
                  => \A q \in 0..(rnd.num_qubits - 1) :
                        Cardinality({i \in DOMAIN rnd.errors_applied :
                                        rnd.errors_applied[i][1] = q}) = 1
    /\ (rnd.pc = "loop" /\ rnd.qubit < rnd.num_qubits
           /\ rnd.error_rate > 0 /\ rnd.error_rate < RateSteps)
         => (ENABLED SkipQubit /\ ENABLED ErrorOnQubit)

C20_Witness ==
    /\ rnd.pc = "returned"
    /\ rnd.num_qubits = 3
    /\ rnd.error_rate = 1
    /\ rnd.errors_applied = << <<0, "Y">>, <<2, "X">> >>
    /\ rnd.circuit = <<GY(0), GX(2)>>

(***************************************************************************)
(* C21: the 3-qubit bit-flip analysis votes on the data bits.  For every   *)
(* outcome string the measured circuit can produce, the field              *)
(* analyze_results votes over is the three measured physical-qubit bits    *)
(* (the register physical_bits, classical bits 2..4), never the two        *)
(* syndrome bits.                                                          *)
(***************************************************************************)
AtMeasurement == pc = "run" /\ ip <= Len(Circuit) /\ Circuit[ip][1] = "measure"

C21_VotesOnDataBits ==
    (code = "bitflip" /\ AtMeasurement)
        => \A k \in DOMAIN psi :
              bf_physical_bits(Memory(k, Circuit, bf_cregs))
                  = RegString(k, Circuit, RegOffset(bf_cregs, 2), bf_cregs[2])

(***************************************************************************)
(* C22: Bacon-Shor row/column decoding.  For a single error on data qubit  *)
(* q, with the syndrome strings of its anticommutations with the circuit's *)
(* checks (bit 0 rightmost), decode_bacon_shor_syndrome reports row        *)
(* q div 3 and type 'X' for an X error, column q mod 3 and type 'Z' for a  *)
(* Z error, and 'Y or mixed' only when both syndromes are non-zero.        *)
(***************************************************************************)
C22_RowColumnDecoding ==
    (code = "bacon_shor" /\ pc = "decoded" /\ Weight(err) = 1)
        => \A q \in 0..8 :
              /\ IsSingle(q, "X")
                    => dec = <<Some(<< <<"X-error in row(s)", <<q \div 3>> >> >>), Some("X")>>
              /\ IsSingle(q, "Z")
                    => dec = <<Some(<< <<"Z-error in column(s)", <<q % 3>> >> >>), Some("Z")>>
              /\ dec[2] = Some("Y or mixed")
                    => (syn[1] # Zeros(6) /\ syn[2] # Zeros(6))

(***************************************************************************)
(* C23: phase-flip repetition code.  For every input and every error       *)
(* configuration (none, or Z on physical qubit 0, 1 or 2) the measured      *)
(* circuit has a single outcome; its syndrome is 00 without an error and    *)
(* a non-zero pair, distinct for the three qubits, with a Z error; and      *)
(* analyze_results counts every shot as a success.                          *)
(***************************************************************************)
\* the syndrome register of an outcome of the phase-flip circuit, s1 s0
pf_syndrome_bits(k) == RegString(k, Circuit, 0, 2)

PhaseFlipSyndrome(q) ==
    CASE q = 0 -> <<"0", "1">>
      [] q = 1 -> <<"1", "1">>
      [] q = 2 -> <<"1", "0">>

C23_PhaseFlipCode ==
    /\ (code = "phase_flip" /\ AtMeasurement)
          => /\ Cardinality(Outcomes(psi, Circuit, pf_cregs)) = 1
             /\ \A k \in DOMAIN psi :
                   /\ ~apply_error => pf_syndrome_bits(k) = Zeros(2)
                   /\ apply_error => pf_syndrome_bits(k) = PhaseFlipSyndrome(error_qubit)
    /\ (code = "phase_flip" /\ pc = "done")
          => /\ report.total = shots
             /\ report.success = report.total
             /\ report.success_rate = Percent(shots, shots)

C23_Witness ==
    /\ code = "phase_flip"
    /\ pc = "done"
    /\ input_value = 1
    /\ apply_error
    /\ error_qubit = 1
    /\ shots = 2
    /\ DOMAIN counts = {<<"1", "0", "1", " ", "1", "1">>}
    /\ report.success = 2

(***************************************************************************)
(* C24: Shor-9 bit-flip syndromes locate the qubit.  For every input, the   *)
(* run without an error has syndrome 00000000; the run with X on qubit q    *)
(* has a single non-zero 8-bit syndrome, the same for input 0 and input 1,  *)
(* and different from the syndrome of X on every other qubit.               *)
(***************************************************************************)
\* the syndromes of the circuit with X on qubit q, run on the simulator
ShorBitFlipSyndromes(iv, q) ==
    {ShorSyndrome(m) :
        m \in Outcomes(ApplyAll(ZeroState, create_shors_9qubit_code(iv, TRUE, FALSE, q)),
                       create_shors_9qubit_code(iv, TRUE, FALSE, q), sh_cregs)}

C24_BitFlipSyndromesLocate ==
    (code = "shor9" /\ pc = "done")
        => \A m \in DOMAIN counts :
              /\ ~apply_error => ShorSyndrome(m) = Zeros(8)
              /\ (apply_error /\ error_type = "X")
                    => /\ Len(ShorSyndrome(m)) = 8
                       /\ ShorSyndrome(m) # Zeros(8)
                       /\ \A iv \in {0, 1} :
                             ShorBitFlipSyndromes(iv, error_qubit) = {ShorSyndrome(m)}
                       /\ \A iv \in {0, 1}, q \in 0..8 :
                             q # error_qubit
                                => ShorSyndrome(m) \notin ShorBitFlipSyndromes(iv, q)

C24_Witness ==
    /\ code = "shor9"
    /\ pc = "done"
    /\ input_value = 1
    /\ apply_error
    /\ error_type = "X"
    /\ error_qubit = 3
    /\ \E m \in DOMAIN counts : ShorSyndrome(m) = <<"1", "1", "0", "0", "0", "1", "0", "0">>

(***************************************************************************)
(* C25: the syndrome reveals the error, not the data (3-qubit bit-flip      *)
(* code).  For every error configuration, the run with the other input      *)
(* value has the same two syndrome bits; the syndrome is 00 iff no error    *)
(* was injected; and the three single-qubit errors have three distinct      *)
(* syndromes.                                                               *)
(***************************************************************************)
\* the syndrome register of the bit-flip circuit, run on the simulator
BitflipSyndromes(iv, apply, eq) ==
    {RegString(k, create_bitflip_code(iv, apply, eq), 0, bf_cregs[1]) :
        k \in DOMAIN ApplyAll(ZeroState, create_bitflip_code(iv, apply, eq))}

C25_SyndromeNotData ==
    (code = "bitflip" /\ AtMeasurement)
        => \A k \in DOMAIN psi :
              LET s == RegString(k, Circuit, 0, bf_cregs[1])
              IN  /\ BitflipSyndromes(1 - input_value, apply_error, error_qubit) = {s}
                  /\ s = Zeros(2) <=> ~apply_error
                  /\ apply_error
                        => \A iv \in {0, 1}, q \in 0..2 :
                              q # error_qubit => s \notin BitflipSyndromes(iv, TRUE, q)

C25_Witness ==
    /\ code = "bitflip"
    /\ AtMeasurement
    /\ input_value = 1
    /\ apply_error
    /\ error_qubit = 2
    /\ \A k \in DOMAIN psi : RegString(k, Circuit, 0, 2) = <<"1", "0">>

(***************************************************************************)
(* C26: operation ordering in every create_* circuit.  The returned        *)
(* circuit is the error-free circuit with the injected gates and their     *)
(* barrier inserted at one place: before it there are only preparation and *)
(* encoding gates (no gate on a syndrome qubit, no measurement); after it  *)
(* only gates of the syndrome measurement, barriers and measurements, and  *)
(* nothing but measurements after the first measurement.  Without an error *)
(* the circuit is the same for every error_qubit and error_type; with an   *)
(* error of type X, Y or Z exactly one Pauli gate is injected, on the      *)
(* selected data qubit.                                                    *)
(***************************************************************************)
Ancillas(c) ==
    UNION {{SyndromeRegisters(c)[r][i] : i \in DOMAIN SyndromeRegisters(c)[r]} :
              r \in DOMAIN SyndromeRegisters(c)}

ErrorFreeCircuit(c, iv) ==
    CircuitOf(c, iv, FALSE, 0, CHOOSE t \in ErrorTypes(c) : TRUE)

\* the gates the error block injects
Injected(c, apply, eq, et) ==
    IF ~apply THEN <<>>
    ELSE (IF et \in {"X", "XZ"} THEN <<GX(DataQubit(c, eq))>> ELSE <<>>)
         \o (IF et = "Y" THEN <<GY(DataQubit(c, eq))>> ELSE <<>>)
         \o (IF et \in {"Z", "XZ"} THEN <<GZ(DataQubit(c, eq))>> ELSE <<>>)
         \o <<GBarrier>>

IsPreparation(c, g) == g[1] # "measure" /\ GateQubits(g) \cap Ancillas(c) = {}

IsSyndromeStep(c, g) ==
    \/ g[1] \in {"barrier", "measure"}
    \/ \E i \in DOMAIN StabilizerGates(c) : StabilizerGates(c)[i] = g

C26_OperationOrdering ==
    pc = "built"
        => LET free == ErrorFreeCircuit(code, input_value)
               inj  == Injected(code, apply_error, error_qubit, error_type)
           IN  /\ ~apply_error => qc = free
               /\ (apply_error /\ error_type \in {"X", "Y", "Z"})
                     => /\ Len(inj) = 2
                        /\ Len(qc) = Len(free) + 2
               /\ \E p \in 0..Len(free) :
                     /\ qc = SubSeq(free, 1, p) \o inj \o SubSeq(free, p + 1, Len(free))
                     /\ \A i \in 1..p : IsPreparation(code, free[i])
                     /\ \A i \in (p + 1)..Len(free) : IsSyndromeStep(code, free[i])
                     /\ \E i \in (p + 1)..Len(free) :
                           /\ free[i][1] # "barrier"
                           /\ \A j \in (p + 1)..(i - 1) : free[j][1] = "barrier"
                           /\ GateQubits(free[i]) \cap Ancillas(code) # {}
                              \/ code = "phase_flip"
                     /\ \A i \in (p + 1)..Len(free), j \in (p + 1)..Len(free) :
                           (free[i][1] = "measure" /\ i < j) => free[j][1] = "measure"

C26_Witness ==
    /\ pc = "built"
    /\ code = "steane"
    /\ input_value = 1
    /\ apply_error
    /\ error_type = "Y"
    /\ error_qubit = 6
    /\ Cardinality({i \in DOMAIN qc : qc[i] = GY(st_physical(6))}) = 1

(***************************************************************************)
(* C27: tally invariants.  After an analysis that did not raise: (a) in    *)
(* the majority-vote analyzers success + failure is the sum of all counts  *)
(* and every outcome has one voted result; (b) in the syndrome analyzers   *)
(* the per-syndrome counts sum to total_shots, 0 <= successful <=          *)
(* total_shots, successful is the count recorded for the all-zero          *)
(* syndrome, and the error stored for a key is the decoder's result for    *)
(* that syndrome.                                                          *)
(***************************************************************************)
ZeroKey(c) ==
    IF c = "five_qubit" THEN Zeros(CregsOf(c)[1])
    ELSE <<Zeros(CregsOf(c)[1]), Zeros(CregsOf(c)[2])>>

\* the syndrome registers a key of syndrome_stats stands for
KeyRegisters(c, s) == IF c = "five_qubit" THEN <<s>> ELSE s

C27_TallyInvariants ==
    (pc = "done" /\ batches # <<>> /\ ~report.raised)
        => /\ IsMajorityAnalyzer(code)
                => /\ report.success + report.failure = TotalShots(counts)
                   /\ report.total = TotalShots(counts)
                   /\ DOMAIN report.result = DOMAIN counts
                   /\ report.success
                         = CountIn(counts, {m \in DOMAIN counts :
                                               report.result[m] = input_value})
           /\ ~IsMajorityAnalyzer(code)
                => /\ report.total_shots = TotalShots(counts)
                   /\ SumOver([s \in DOMAIN report.syndrome_stats |->
                                  report.syndrome_stats[s].count],
                              DOMAIN report.syndrome_stats) = report.total_shots
                   /\ 0 <= report.successful
                   /\ report.successful <= report.total_shots
                   /\ report.successful = SyndromeCount(code, report, ZeroKey(code))
                   /\ \A s \in DOMAIN report.syndrome_stats :
                         report.syndrome_stats[s].error
                            = DecodeOf(code, KeyRegisters(code, s))

C27_Witness ==
    /\ pc = "done"
    /\ batches # <<>>
    /\ code = "toric"
    /\ ~report.raised
    /\ report.total_shots = 3
    /\ report.successful = 1
    /\ Cardinality(DOMAIN report.syndrome_stats) = 2
    /\ Cardinality(DOMAIN counts) = 3

(***************************************************************************)
(* C28: empty histogram.  When counts is empty, every analyzer returns a   *)
(* success rate of 0 and does not raise.                                   *)
(***************************************************************************)
C28_EmptyHistogram ==
    (pc = "done" /\ batches # <<>> /\ counts = EmptyCounts)
        => /\ ~report.raised
           /\ report.success_rate = Percent(0, 1)

(***************************************************************************)
(* C29: outcome parsing is independent of register separators.  In every   *)
(* analyzer, for every outcome string of the circuit's full width, the     *)
(* fields selected from the string with its registers separated by spaces  *)
(* are the fields the fallback branch selects from the same string without *)
(* spaces.                                                                 *)
(***************************************************************************)
\* the fields the analyzer of each script selects from an outcome string
ParseOf(c, m) ==
    CASE c = "bitflip" -> bf_physical_bits(m)
      [] c = "phase_flip" -> pf_physical_bits(m)
      [] c = "shor9" -> sh_physical_bits(m)
      [] c = "five_qubit" -> fq_parse(m)
      [] c = "steane" -> st_parse(m)
      [] c = "surface" -> sf_parse(m)
      [] c = "bacon_shor" -> bs_parse(m)
      [] c = "toric" -> tc_parse(m)

C29_ParsingIgnoresSeparators ==
    (pc = "done" /\ batches # <<>>)
        => \A m \in DOMAIN counts : ParseOf(code, RemoveSpaces(m)) = ParseOf(code, m)

====
